---- MODULE Spec2Model ----
(***************************************************************************)
(* A model of cielo-rs-sdk: the client facade CieloApi (src/api/mod.rs),   *)
(* the feed call get_feed (src/api/feed.rs), the retry strategy            *)
(* (src/reqwest_ext.rs) and the untagged decoding of feed items            *)
(* (src/models/feed.rs).                                                   *)
(*                                                                         *)
(* The specifications share the variables:                                 *)
(*   Spec           one get_feed call driven through the retry middleware; *)
(*   SpecDecode     the decoding of one element of data.items as Item;     *)
(*   SpecRoundTrip  an Item value encoded as JSON and decoded again;       *)
(*   SpecItems      the decoding of a response body as Response<Item>;     *)
(*   SpecQuery      the query get_feed builds from a Filters value;        *)
(*   SpecNew        the construction of the client by CieloApi::new;       *)
(*   SpecCalls      several get_feed calls running on one client;          *)
(*   SpecBackoff    one call, with the backoff delays of its retries;      *)
(*   SpecLive       Spec with the fairness of attempts, sleeps and reads.  *)
(***************************************************************************)
EXTENDS Integers, Sequences, FiniteSets, TLC

VARIABLES
    arg_max_retries,  \* the max_retries argument of CieloApi::new: None or Some(n)
    policy,           \* the retry policy held by the client's middleware
    pc,               \* position of the get_feed call
    n_past_retries,   \* the middleware's retry counter of the running call
    history,          \* the outcomes of the HTTP attempts made so far, in order
    retryable,        \* what Retry::handle answered for the last outcome
    sent,             \* what request.send() handed back to get_feed
    body_read,        \* how reading the body of the final response ended
    json_parsed,      \* whether get_feed ran the JSON decoder on a body
    result,           \* what get_feed returned
    elem,             \* decoder: the JSON object being decoded, key -> kind of value
    base,             \* decoder: the variant whose documented shape elem started from
    edits,            \* decoder: how many changes were made to that shape
    tried,            \* decoder: the variants tried so far, in order
    decoded,          \* decoder: the outcome of decoding elem as Item
    api_key,          \* the bytes of the api_key argument of CieloApi::new
    arg_min_retry_interval,  \* the min_retry_interval argument: None or Some(ms)
    arg_max_retry_interval,  \* the max_retry_interval argument: None or Some(ms)
    constructed,      \* how the call of CieloApi::new ended
    filters,          \* the Filters argument of get_feed
    query,            \* the query pairs of the request get_feed built, in order
    json_body,        \* a response body: envelope, paging and data.items
    parsed,           \* the outcome of decoding json_body as Response<Item>
    value,            \* an Item value to be encoded as JSON
    jitter,           \* the random jitter factors the backoff policy draws, per retry
    delays,           \* the delays slept before the retries made so far, in ms
    requests,         \* the requests sent by the attempts made so far, in order
    calls             \* the get_feed calls running on one shared client

retryVars == <<arg_max_retries, policy, pc, n_past_retries, history, retryable,
               sent, body_read, json_parsed, result>>
decodeVars == <<elem, base, edits, tried, decoded>>
newVars == <<api_key, arg_min_retry_interval, arg_max_retry_interval, constructed>>
queryVars == <<filters, query>>
itemsVars == <<json_body, parsed>>
moreVars == <<jitter, delays, requests, calls>>
vars == <<arg_max_retries, policy, pc, n_past_retries, history, retryable,
          sent, body_read, json_parsed, result, elem, base, edits, tried, decoded,
          api_key, arg_min_retry_interval, arg_max_retry_interval, constructed,
          filters, query, json_body, parsed, value,
          jitter, delays, requests, calls>>

None == "None"

(***************************************************************************)
(* Bounds of the model.                                                    *)
(***************************************************************************)
\* CieloApi::new is called with max_retries = None or Some(0..MaxCfgRetries).
MaxCfgRetries == 3
\* At most this many changes are made to a documented element shape.
MaxEdits == 1

(***************************************************************************)
(* src/constants.rs                                                        *)
(***************************************************************************)
MIN_RETRY_INTERVAL == 500
MAX_RETRY_INTERVAL == 1000
MAX_RETRIES == 3

(***************************************************************************)
(* The transport: what one HTTP attempt can end in.                        *)
(***************************************************************************)
StatusOk == 200
\* The status codes the server answers with in the model: 200, two other 2xx
\* codes, a 4xx and a 5xx code.
Statuses == {200, 201, 204, 404, 500}
\* Body texts: one that is the JSON envelope of a feed response, one that is not.
BodyEnvelope == "envelope"
BodyOther == "text"
Bodies == {BodyEnvelope, BodyOther}
\* Failures of an attempt: reqwest errors (connect, timeout, builder) and an
\* error raised by another middleware.
ErrConnect == "connect"
ErrTimeout == "timeout"
ErrBuilder == "builder"
ErrMiddleware == "middleware"
ErrKinds == {ErrConnect, ErrTimeout, ErrBuilder, ErrMiddleware}

\* Result<reqwest::Response, reqwest_middleware::Error>
OkResponse(status, body) == [ok |-> TRUE, status |-> status, body |-> body, err |-> None]
ErrFailure(kind) == [ok |-> FALSE, status |-> 0, body |-> "", err |-> kind]
Outcomes == {OkResponse(s, b) : s \in Statuses, b \in Bodies}
            \cup {ErrFailure(k) : k \in ErrKinds}
NoOutcome == [ok |-> FALSE, status |-> 0, body |-> "", err |-> None]

Transient == "Transient"
Fatal == "Fatal"

\* reqwest_retry::default_on_request_failure, as called by Retry::handle: a
\* middleware error is fatal, a reqwest connect or timeout error is transient,
\* a builder error is fatal.
default_on_request_failure(error) ==
    IF error = ErrMiddleware THEN Fatal
    ELSE IF error = ErrTimeout \/ error = ErrConnect THEN Transient
    ELSE Fatal

handle_RetryEveryError(res) ==
    IF res.ok
    THEN IF res.status # StatusOk THEN Transient ELSE None
    ELSE Transient

handle_NoRetryOnStatus(res) ==
    IF res.ok
    THEN None
    ELSE default_on_request_failure(res.err)

handle_RetryOnlyNon2xx(res) ==
    IF res.ok
    THEN IF ~(res.status >= 200 /\ res.status < 300) THEN Transient ELSE None
    ELSE default_on_request_failure(res.err)

handle_RetryAlways(res) ==
    IF res.ok
    THEN Transient
    ELSE default_on_request_failure(res.err)

handle_RetryUndecodable(res) ==
    IF res.ok
    THEN IF res.status # StatusOk \/ res.body # BodyEnvelope THEN Transient ELSE None
    ELSE default_on_request_failure(res.err)

\* Retry::handle
handle(res) ==
    IF res.ok
    THEN IF res.status # StatusOk THEN Transient ELSE None
    ELSE default_on_request_failure(res.err)

get_retry_strategy_OneMore(min_retry_interval, max_retry_interval, max_retries) ==
    [min_retry_interval |-> min_retry_interval,
     max_retry_interval |-> max_retry_interval,
     max_n_retries |-> max_retries + 1]

\* get_retry_strategy: the ExponentialBackoff policy built with the retry
\* bounds and build_with_max_retries(max_retries).
get_retry_strategy(min_retry_interval, max_retry_interval, max_retries) ==
    [min_retry_interval |-> min_retry_interval,
     max_retry_interval |-> max_retry_interval,
     max_n_retries |-> max_retries]

\* Option<T> arguments: None or Some(v).
NoneArg == [some |-> FALSE, v |-> 0]
Some(x) == [some |-> TRUE, v |-> x]

\* Option::unwrap_or
unwrap_or(opt, default) == IF opt.some THEN opt.v ELSE default

\* CieloApi::new: the retry policy of the client it builds.
CieloApi_new(min_retry_interval, max_retry_interval, max_retries) ==
    get_retry_strategy(unwrap_or(min_retry_interval, MIN_RETRY_INTERVAL),
                       unwrap_or(max_retry_interval, MAX_RETRY_INTERVAL),
                       unwrap_or(max_retries, MAX_RETRIES))

\* The bytes of an API key in the model: a tab, a line feed, a space, the
\* letter A and DEL.
KeyBytes == {9, 10, 32, 65, 127}

\* http::header::value::is_valid: the bytes HeaderValue::from_str accepts.
is_valid(b) == (b >= 32 /\ b # 127) \/ b = 9

\* HeaderValue::from_str(api_key) is Ok: every byte of the key is valid.
HeaderValue_from_str(key) == \A i \in 1..Len(key) : is_valid(key[i])

\* ExponentialBackoffBuilder::retry_bounds asserts min <= max.
retry_bounds(min_retry_interval, max_retry_interval) ==
    min_retry_interval <= max_retry_interval

\* How a call of CieloApi::new ends: Ok(client), Err(crate::Error) or a panic.
NewOk == "Ok"
NewErr == "Err"
NewPanic == "panic"
NoPolicy == [min_retry_interval |-> 0, max_retry_interval |-> 0, max_n_retries |-> 0]
NotConstructed == [status |-> None, cause |-> "", policy |-> NoPolicy]

\* CieloApi::new(api_key, min_retry_interval, max_retry_interval,
\* max_retries): `HeaderValue::from_str(api_key).unwrap()` panics on a key
\* that is no header value; `Client::builder()...build()?` returns the
\* builder's error (built tells whether reqwest could build the client);
\* get_retry_strategy panics in retry_bounds when min > max.
new(key, min_retry_interval, max_retry_interval, max_retries, built) ==
    IF ~HeaderValue_from_str(key)
    THEN [status |-> NewPanic, cause |-> "InvalidHeaderValue", policy |-> NoPolicy]
    ELSE IF ~built
    THEN [status |-> NewErr, cause |-> "Reqwest", policy |-> NoPolicy]
    ELSE IF ~retry_bounds(unwrap_or(min_retry_interval, MIN_RETRY_INTERVAL),
                          unwrap_or(max_retry_interval, MAX_RETRY_INTERVAL))
    THEN [status |-> NewPanic, cause |-> "retry_bounds", policy |-> NoPolicy]
    ELSE [status |-> NewOk, cause |-> "",
          policy |-> CieloApi_new(min_retry_interval, max_retry_interval,
                                  max_retries)]

\* ExponentialBackoff::should_retry: retry while fewer than max_n_retries
\* retries were made.
\* A policy that never gives up.
should_retry_Always(p, n) == TRUE

should_retry(p, n) == n < p.max_n_retries

\* constants::URL
URL == "https://feed-api.cielo.finance/api/v1/"

\* A retry that sends the request without its query parameters.
attempt_request_DropQuery(req, n) ==
    IF n = 0 THEN req ELSE [req EXCEPT !.query = <<>>]

\* The request the middleware sends at the attempt after n retries: a clone
\* of the request get_feed built, whatever n is.
attempt_request(req, n) == req

\* The jitter factors the policy draws in the model, in percent: the two
\* ends of the range of the random factor.
JitterFactors == {0, 99}

\* The largest retry counter a call of the model reaches: the largest
\* max_retries a client of the model is built with.
LastRetry == IF MaxCfgRetries > MAX_RETRIES THEN MaxCfgRetries ELSE MAX_RETRIES

\* The factor 99 % for every retry.
SteadyJitter == [n \in 0..LastRetry |-> 99]

\* ExponentialBackoff, the wait before retry n (n_past_retries = n), built
\* by get_retry_strategy with retry_bounds only, so with the builder's
\* default base 2 and its default random jitter: the exponential wait
\* min * 2^n is multiplied by the random factor j (percent) and the product
\* is kept within [min_retry_interval, max_retry_interval].
backoff_delay(p, n, j) ==
    LET unjittered_wait_for == p.min_retry_interval * 2^n
        jittered_wait_for == (unjittered_wait_for * j) \div 100
        floored == IF jittered_wait_for < p.min_retry_interval
                   THEN p.min_retry_interval ELSE jittered_wait_for
    IN IF floored > p.max_retry_interval THEN p.max_retry_interval ELSE floored

\* StatusCode::is_success
is_success(status) == status >= 200 /\ status < 300

\* Results of get_feed: Ok(items) or one of the variants of crate::Error.
ResOk == "Ok"
ResStatusNot200 == "StatusNot200"
ResReqwest == "Reqwest"
ResReqwestMiddleware == "ReqwestMiddleware"
NoResult == [tag |-> None, payload |-> "", parsed |-> FALSE]

get_feed_tail_StatusLine(res, readOk) ==
    IF ~res.ok THEN [tag |-> ResReqwestMiddleware, payload |-> res.err, parsed |-> FALSE]
    ELSE IF ~is_success(res.status)
    THEN [tag |-> ResStatusNot200, payload |-> "status", parsed |-> FALSE]
    ELSE IF readOk /\ res.body = BodyEnvelope
         THEN [tag |-> ResOk, payload |-> "items", parsed |-> TRUE]
         ELSE [tag |-> ResReqwest, payload |-> "decode", parsed |-> TRUE]

\* get_feed from `request.send().await?` on: res is what send() handed back,
\* readOk tells whether the body of the response could be read.
get_feed_tail(res, readOk) ==
    IF ~res.ok THEN [tag |-> ResReqwestMiddleware, payload |-> res.err, parsed |-> FALSE]
    ELSE IF ~is_success(res.status)
    THEN IF readOk
         THEN [tag |-> ResStatusNot200, payload |-> res.body, parsed |-> FALSE]
         ELSE [tag |-> ResReqwest, payload |-> "body", parsed |-> FALSE]
    ELSE IF readOk /\ res.body = BodyEnvelope
         THEN [tag |-> ResOk, payload |-> "items", parsed |-> TRUE]
         ELSE [tag |-> ResReqwest, payload |-> "decode", parsed |-> TRUE]

(***************************************************************************)
(* src/api/feed.rs: Filters and the query get_feed builds from it.  The    *)
(* query is the sequence of the <<key, value>> pairs handed to             *)
(* RequestBuilder::query, values as the strings the code formats.          *)
(***************************************************************************)
\* At most this many fields of a Filters value are set.
MaxSetFields == 2

\* None for the Option of a string, of a list and of a bool.
NoneString == [some |-> FALSE, v |-> ""]
NoneList == [some |-> FALSE, v |-> <<>>]
NoneBool == [some |-> FALSE, v |-> FALSE]

\* Display of enum TxType under #[strum(serialize_all = "snake_case")].
TxType_to_string ==
    [t \in {"Bridge", "ContractCreation", "ContractInteraction", "Flashloan",
            "Lending", "Lp", "NftLending", "NftLiquidation", "NftMint", "NftSweep",
            "NftTrade", "NftTransfer", "Option", "Perp", "Reward", "Staking",
            "SudoPool", "Swap", "Transfer", "Wrap"} |->
        CASE t = "Bridge" -> "bridge"
          [] t = "ContractCreation" -> "contract_creation"
          [] t = "ContractInteraction" -> "contract_interaction"
          [] t = "Flashloan" -> "flashloan"
          [] t = "Lending" -> "lending"
          [] t = "Lp" -> "lp"
          [] t = "NftLending" -> "nft_lending"
          [] t = "NftLiquidation" -> "nft_liquidation"
          [] t = "NftMint" -> "nft_mint"
          [] t = "NftSweep" -> "nft_sweep"
          [] t = "NftTrade" -> "nft_trade"
          [] t = "NftTransfer" -> "nft_transfer"
          [] t = "Option" -> "option"
          [] t = "Perp" -> "perp"
          [] t = "Reward" -> "reward"
          [] t = "Staking" -> "staking"
          [] t = "SudoPool" -> "sudo_pool"
          [] t = "Swap" -> "swap"
          [] t = "Transfer" -> "transfer"
          [] t = "Wrap" -> "wrap"]
TxType == DOMAIN TxType_to_string

\* bool::to_string
bool_to_string(b) == IF b THEN "true" ELSE "false"

\* [String]::join(sep)
RECURSIVE join(_, _)
join(list, sep) ==
    IF list = <<>> THEN ""
    ELSE IF Len(list) = 1 THEN list[1]
    ELSE list[1] \o sep \o join(Tail(list), sep)

\* tx_types.iter().map(|tx| tx.to_string()).collect()
map_to_string(tx_types) == [i \in 1..Len(tx_types) |-> TxType_to_string[tx_types[i]]]

\* Filters::default(): every field None.
Filters_default ==
    [wallet |-> NoneString, limit |-> NoneArg, list_id |-> NoneArg,
     chains |-> NoneList, tx_types |-> NoneList, tokens |-> NoneList,
     min_usd |-> NoneArg, new_trades |-> NoneBool, start_from |-> NoneString,
     from_timestamp |-> NoneArg, to_timestamp |-> NoneArg,
     include_market_cap |-> NoneBool]

\* The Filters of the example in the documentation of get_feed.
Filters_example ==
    [Filters_default EXCEPT
        !.wallet = Some("your_wallet_address"),
        !.limit = Some(10),
        !.chains = Some(<<"solana">>),
        !.tx_types = Some(<<"Swap">>),
        !.min_usd = Some(100),
        !.new_trades = Some(TRUE),
        !.include_market_cap = Some(TRUE)]

\* The Filters of the end-to-end scenario: limit, chains, tx_types, min_usd.
Filters_scenario ==
    [Filters_default EXCEPT
        !.limit = Some(10),
        !.chains = Some(<<"solana">>),
        !.tx_types = Some(<<"Swap">>),
        !.min_usd = Some(100)]

FilterFields == DOMAIN Filters_default

\* The values each field of Filters takes in the model.
FilterChoices ==
    [wallet : {NoneString, Some("your_wallet_address")},
     limit : {NoneArg, Some(10)},
     list_id : {NoneArg, Some(7)},
     chains : {NoneList, Some(<<>>), Some(<<"solana", "ethereum">>),
               Some(<<"ethereum", "solana">>)},
     tx_types : {NoneList, Some(<<"Swap">>), Some(<<"NftTrade", "ContractInteraction">>)},
     tokens : {NoneList, Some(<<"token_a", "token_b">>)},
     min_usd : {NoneArg, Some(100)},
     new_trades : {NoneBool, Some(TRUE), Some(FALSE)},
     start_from : {NoneString, Some("cursor")},
     from_timestamp : {NoneArg, Some(1700000000)},
     to_timestamp : {NoneArg, Some(1700003600)},
     include_market_cap : {NoneBool, Some(TRUE), Some(FALSE)}]

SetFields(f) == {n \in FilterFields : f[n].some}

\* The Filters values of the model: those with at most MaxSetFields fields
\* set, and the example of the documentation.
FilterValues ==
    {f \in FilterChoices : Cardinality(SetFields(f)) <= MaxSetFields}
        \cup {Filters_example}

\* `if let Some(x) = field { request = request.query(&[(key, value)]) }`
query_pair(opt, key, val) == IF opt.some THEN <<<<key, val>>>> ELSE <<>>

build_query_DefaultLimit(f) ==
    query_pair(f.wallet, "wallet", f.wallet.v)
    \o <<<<"limit", ToString(unwrap_or(f.limit, 100))>>>>
    \o query_pair(f.list_id, "list", ToString(f.list_id.v))
    \o query_pair(f.chains, "chains", join(f.chains.v, ","))
    \o query_pair(f.tx_types, "txTypes", join(map_to_string(f.tx_types.v), ","))
    \o query_pair(f.tokens, "tokens", join(f.tokens.v, ","))
    \o query_pair(f.min_usd, "minUSD", ToString(f.min_usd.v))
    \o query_pair(f.new_trades, "newTrades", bool_to_string(f.new_trades.v))
    \o query_pair(f.start_from, "startFrom", f.start_from.v)
    \o query_pair(f.from_timestamp, "fromTimestamp", ToString(f.from_timestamp.v))
    \o query_pair(f.to_timestamp, "toTimestamp", ToString(f.to_timestamp.v))

build_query_ListIdKey(f) ==
    query_pair(f.wallet, "wallet", f.wallet.v)
    \o query_pair(f.limit, "limit", ToString(f.limit.v))
    \o query_pair(f.list_id, "list_id", ToString(f.list_id.v))
    \o query_pair(f.chains, "chains", join(f.chains.v, ","))
    \o query_pair(f.tx_types, "txTypes", join(map_to_string(f.tx_types.v), ","))
    \o query_pair(f.tokens, "tokens", join(f.tokens.v, ","))
    \o query_pair(f.min_usd, "minUSD", ToString(f.min_usd.v))
    \o query_pair(f.new_trades, "newTrades", bool_to_string(f.new_trades.v))
    \o query_pair(f.start_from, "startFrom", f.start_from.v)
    \o query_pair(f.from_timestamp, "fromTimestamp", ToString(f.from_timestamp.v))
    \o query_pair(f.to_timestamp, "toTimestamp", ToString(f.to_timestamp.v))

\* A get_feed that also sends include_market_cap.
build_query_MarketCap(f) ==
    query_pair(f.wallet, "wallet", f.wallet.v)
    \o query_pair(f.limit, "limit", ToString(f.limit.v))
    \o query_pair(f.list_id, "list", ToString(f.list_id.v))
    \o query_pair(f.chains, "chains", join(f.chains.v, ","))
    \o query_pair(f.tx_types, "txTypes", join(map_to_string(f.tx_types.v), ","))
    \o query_pair(f.tokens, "tokens", join(f.tokens.v, ","))
    \o query_pair(f.min_usd, "minUSD", ToString(f.min_usd.v))
    \o query_pair(f.new_trades, "newTrades", bool_to_string(f.new_trades.v))
    \o query_pair(f.start_from, "startFrom", f.start_from.v)
    \o query_pair(f.from_timestamp, "fromTimestamp", ToString(f.from_timestamp.v))
    \o query_pair(f.to_timestamp, "toTimestamp", ToString(f.to_timestamp.v))
    \o query_pair(f.include_market_cap, "includeMarketCap",
                  bool_to_string(f.include_market_cap.v))

\* get_feed, the building of the request: one query pair per field of
\* Filters that is Some, in the order of the code; include_market_cap is
\* not read.
build_query(f) ==
    query_pair(f.wallet, "wallet", f.wallet.v)
    \o query_pair(f.limit, "limit", ToString(f.limit.v))
    \o query_pair(f.list_id, "list", ToString(f.list_id.v))
    \o query_pair(f.chains, "chains", join(f.chains.v, ","))
    \o query_pair(f.tx_types, "txTypes", join(map_to_string(f.tx_types.v), ","))
    \o query_pair(f.tokens, "tokens", join(f.tokens.v, ","))
    \o query_pair(f.min_usd, "minUSD", ToString(f.min_usd.v))
    \o query_pair(f.new_trades, "newTrades", bool_to_string(f.new_trades.v))
    \o query_pair(f.start_from, "startFrom", f.start_from.v)
    \o query_pair(f.from_timestamp, "fromTimestamp", ToString(f.from_timestamp.v))
    \o query_pair(f.to_timestamp, "toTimestamp", ToString(f.to_timestamp.v))

(***************************************************************************)
(* src/models/feed.rs: the structs of the Item variants.  Each struct is   *)
(* the record of its fields, JSON key |-> Rust type, in declaration order  *)
(* (`r#type` is the JSON key "type").                                      *)
(***************************************************************************)
TyString == "String"
TyU32 == "u32"
TyU64 == "u64"
TyF64 == "f64"
TyBool == "bool"
TyOptU64 == "Option<u64>"
TyOptString == "Option<String>"
TyOptF64 == "Option<f64>"
TyOptTokenMarketCap == "Option<TokenMarketCap>"

Swap ==
    [wallet |-> TyString, wallet_label |-> TyString, tx_hash |-> TyString,
     tx_type |-> TyString, chain |-> TyString, index |-> TyU32, timestamp |-> TyU64,
     block |-> TyU64, dex |-> TyString, from |-> TyString, to |-> TyString,
     token0_address |-> TyString, token0_amount |-> TyF64, token0_amount_usd |-> TyF64,
     token0_name |-> TyString, token0_price_usd |-> TyF64, token0_symbol |-> TyString,
     token0_icon_link |-> TyString, token1_address |-> TyString, token1_amount |-> TyF64,
     token1_amount_usd |-> TyF64, token1_name |-> TyString, token1_price_usd |-> TyF64,
     token1_symbol |-> TyString, token1_icon_link |-> TyString,
     first_interaction |-> TyBool, token_market_cap |-> TyOptTokenMarketCap]

Lp ==
    [wallet |-> TyString, wallet_label |-> TyString, tx_hash |-> TyString,
     tx_type |-> TyString, chain |-> TyString, index |-> TyU32, timestamp |-> TyU64,
     block |-> TyU64, dex |-> TyString, from |-> TyString, type |-> TyString,
     token0_address |-> TyString, token0_amount |-> TyF64, token0_amount_usd |-> TyF64,
     token0_name |-> TyString, token0_price_usd |-> TyF64, token0_symbol |-> TyString,
     token0_icon_link |-> TyString, token1_address |-> TyString, token1_amount |-> TyF64,
     token1_amount_usd |-> TyF64, token1_name |-> TyString, token1_price_usd |-> TyF64,
     token1_symbol |-> TyString, token1_icon_link |-> TyString, lower_bound |-> TyF64,
     upper_bound |-> TyF64]

Transfer ==
    [wallet |-> TyString, wallet_label |-> TyString, tx_hash |-> TyString,
     tx_type |-> TyString, chain |-> TyString, index |-> TyU32, timestamp |-> TyU64,
     block |-> TyU64, from |-> TyString, to |-> TyString, from_label |-> TyString,
     to_label |-> TyString, amount_usd |-> TyF64, contract_address |-> TyString,
     name |-> TyString, symbol |-> TyString, token_price_usd |-> TyF64, type |-> TyString,
     token_icon_link |-> TyString, token_market_cap |-> TyOptTokenMarketCap]

Lending ==
    [wallet |-> TyString, wallet_label |-> TyString, tx_hash |-> TyString,
     tx_type |-> TyString, chain |-> TyString, index |-> TyU32, timestamp |-> TyU64,
     block |-> TyU64, from |-> TyString, from_label |-> TyString, action |-> TyString,
     address |-> TyString, amount |-> TyF64, amount_usd |-> TyF64, dex |-> TyString,
     health_factor |-> TyF64, name |-> TyString, platform |-> TyString,
     price_usd |-> TyF64, symbol |-> TyString, token_icon_link |-> TyString]

NftMint ==
    [wallet |-> TyString, wallet_label |-> TyString, tx_hash |-> TyString,
     tx_type |-> TyString, chain |-> TyString, index |-> TyU32, timestamp |-> TyU64,
     block |-> TyU64, from |-> TyString, to |-> TyString, from_label |-> TyString,
     to_label |-> TyString, thumbnail |-> TyString, image |-> TyString, amount |-> TyF64,
     contract_address |-> TyString, contract_type |-> TyString, fee |-> TyF64,
     nft_name |-> TyString, nft_symbol |-> TyString, nft_token_id |-> TyString,
     currency_symbol |-> TyString, type |-> TyString, value |-> TyF64, value_usd |-> TyF64]

NftTrade ==
    [wallet |-> TyString, wallet_label |-> TyString, tx_hash |-> TyString,
     tx_type |-> TyString, chain |-> TyString, index |-> TyU32, timestamp |-> TyU64,
     block |-> TyU64, from |-> TyString, to |-> TyString, thumbnail |-> TyString,
     image |-> TyString, action |-> TyString, contract |-> TyString,
     marketplace |-> TyString, nft_address |-> TyString, nft_name |-> TyString,
     nft_symbol |-> TyString, nft_token_id |-> TyString, price |-> TyF64,
     price_usd |-> TyF64, profit |-> TyF64, currency_symbol |-> TyString,
     buyer |-> TyString, seller |-> TyString, token |-> TyString,
     first_interaction |-> TyBool, bid_accepted |-> TyBool]

NftTransfer ==
    [wallet |-> TyString, wallet_label |-> TyString, tx_hash |-> TyString,
     tx_type |-> TyString, chain |-> TyString, index |-> TyU32, timestamp |-> TyU64,
     block |-> TyU64, from |-> TyString, to |-> TyString, from_label |-> TyString,
     to_label |-> TyString, thumbnail |-> TyString, image |-> TyString,
     contract_address |-> TyString, contract_type |-> TyString, fee |-> TyF64,
     nft_name |-> TyString, nft_symbol |-> TyString, nft_token_id |-> TyString,
     type |-> TyString, value |-> TyF64]

NftLending ==
    [wallet |-> TyString, wallet_label |-> TyString, tx_hash |-> TyString,
     tx_type |-> TyString, chain |-> TyString, index |-> TyU32, timestamp |-> TyU64,
     block |-> TyU64, from |-> TyString, to |-> TyString, from_label |-> TyString,
     to_label |-> TyString, thumbnail |-> TyString, image |-> TyString,
     action |-> TyString, currency_address |-> TyString, currency_symbol |-> TyString,
     interest |-> TyF64, nft_address |-> TyString, nft_name |-> TyString,
     nft_symbol |-> TyString, platform |-> TyString, nft_token_id |-> TyString,
     price |-> TyF64, price_usd |-> TyF64, terms |-> TyF64, refinance |-> TyBool]

Bridge ==
    [wallet |-> TyString, wallet_label |-> TyString, tx_hash |-> TyString,
     tx_type |-> TyString, chain |-> TyString, index |-> TyU32, timestamp |-> TyU64,
     block |-> TyU64, from |-> TyString, to |-> TyString, from_label |-> TyString,
     to_label |-> TyString, token_address |-> TyString, token_name |-> TyString,
     token_symbol |-> TyString, token_icon_link |-> TyString, amount |-> TyF64,
     amount_usd |-> TyF64, from_chain |-> TyString, to_chain |-> TyString,
     platform |-> TyString, price |-> TyF64, type |-> TyString]

ContractInteraction ==
    [wallet |-> TyString, wallet_label |-> TyString, tx_hash |-> TyString,
     tx_type |-> TyString, chain |-> TyString, index |-> TyU32, timestamp |-> TyU64,
     block |-> TyU64, from |-> TyString, to |-> TyString, contract_address |-> TyString,
     contract_label |-> TyString]

Wrap ==
    [wallet |-> TyString, wallet_label |-> TyString, tx_hash |-> TyString,
     tx_type |-> TyString, chain |-> TyString, index |-> TyU32, timestamp |-> TyU64,
     block |-> TyU64, dex |-> TyString, from |-> TyString, to |-> TyString,
     action |-> TyString, amount |-> TyF64, amount_usd |-> TyF64,
     contract_address |-> TyString, name |-> TyString, symbol |-> TyString,
     token_price_usd |-> TyF64, token_type |-> TyString, token_icon_link |-> TyString]

SudoPool ==
    [wallet |-> TyString, wallet_label |-> TyString, tx_hash |-> TyString,
     tx_type |-> TyString, chain |-> TyString, index |-> TyU32, timestamp |-> TyU64,
     block |-> TyOptU64, dex |-> TyOptString, from |-> TyString, nft_address |-> TyString,
     nft_amount |-> TyU32, nft_price |-> TyF64, nft_symbol |-> TyString, to |-> TyString,
     token0_address |-> TyString, token0_amount |-> TyF64, token0_amount_usd |-> TyF64,
     token0_name |-> TyString, token0_price_usd |-> TyF64, token0_symbol |-> TyString,
     token0_icon_link |-> TyString]

Reward ==
    [wallet |-> TyString, wallet_label |-> TyString, tx_hash |-> TyString,
     tx_type |-> TyString, chain |-> TyString, index |-> TyU32, timestamp |-> TyU64,
     block |-> TyU64, address |-> TyString, amount |-> TyF64, amount_usd |-> TyF64,
     from |-> TyString, name |-> TyString, price_usd |-> TyF64, symbol |-> TyString]

Staking ==
    [wallet |-> TyString, wallet_label |-> TyString, tx_hash |-> TyString,
     tx_type |-> TyString, chain |-> TyString, index |-> TyU32, timestamp |-> TyU64,
     block |-> TyU64, from |-> TyString, to |-> TyString, from_label |-> TyString,
     to_label |-> TyString, amount |-> TyF64, amount_usd |-> TyF64,
     token_price_usd |-> TyF64, contract_address |-> TyString, symbol |-> TyString,
     name |-> TyString, action |-> TyString]

Perp ==
    [wallet |-> TyString, wallet_label |-> TyString, tx_hash |-> TyString,
     tx_type |-> TyString, chain |-> TyString, index |-> TyU32, timestamp |-> TyU64,
     block |-> TyU64, action |-> TyString, amount_usd |-> TyF64, average_price |-> TyF64,
     base_token_address |-> TyString, base_token_amount |-> TyF64,
     base_token_symbol |-> TyString, dex |-> TyString, from |-> TyString,
     liquidation |-> TyBool, liquidation_price |-> TyF64, to |-> TyString,
     trade_direction |-> TyString, perp_details |-> TyString, token0_address |-> TyString,
     token0_amount |-> TyF64, token0_amount_usd |-> TyF64, token0_name |-> TyString,
     token0_price_usd |-> TyF64, token0_symbol |-> TyString, token0_icon_link |-> TyString,
     token1_address |-> TyString, token1_amount |-> TyF64, token1_amount_usd |-> TyF64,
     token1_name |-> TyString, token1_price_usd |-> TyF64, token1_symbol |-> TyString,
     token1_icon_link |-> TyString, realized_pnl |-> TyF64, is_nft_perp |-> TyBool,
     position_size |-> TyOptF64, position_size_usd |-> TyOptF64, leverage |-> TyOptF64,
     unrealized_pnl |-> TyOptF64]

Flashloan ==
    [wallet |-> TyString, wallet_label |-> TyString, tx_hash |-> TyString,
     tx_type |-> TyString, chain |-> TyString, index |-> TyU32, timestamp |-> TyU64,
     block |-> TyU64, address |-> TyString, amount |-> TyF64, amount_usd |-> TyF64,
     dex |-> TyString, from |-> TyString, health_factor |-> TyF64, name |-> TyString,
     platform |-> TyString, price_usd |-> TyF64, symbol |-> TyString,
     token_icon_link |-> TyString]

ContractCreation ==
    [wallet |-> TyString, wallet_label |-> TyString, tx_hash |-> TyString,
     tx_type |-> TyString, chain |-> TyString, index |-> TyU32, timestamp |-> TyU64,
     block |-> TyU64, amount_usd |-> TyF64, contract_address |-> TyString,
     from |-> TyString, from_label |-> TyString]

NftLiquidation ==
    [wallet |-> TyString, wallet_label |-> TyString, tx_hash |-> TyString,
     tx_type |-> TyString, chain |-> TyString, index |-> TyU32, timestamp |-> TyU64,
     block |-> TyU64, contract_address |-> TyString, currency_address |-> TyString,
     currency_symbol |-> TyString, dex |-> TyString, from |-> TyString,
     nft_address |-> TyString, nft_name |-> TyString, nft_symbol |-> TyString,
     platform |-> TyString, price |-> TyF64, price_usd |-> TyF64, to |-> TyString,
     token_id |-> TyString]

OptionType ==
    [wallet |-> TyString, wallet_label |-> TyString, tx_hash |-> TyString,
     tx_type |-> TyString, chain |-> TyString, index |-> TyU32, timestamp |-> TyU64,
     block |-> TyU64, action |-> TyString, amount |-> TyF64, asset |-> TyString,
     dex |-> TyString, direction |-> TyString, expiry |-> TyString, from |-> TyString,
     option_price_usd |-> TyF64, position_status |-> TyString, spot_price_usd |-> TyF64,
     status |-> TyString, strike_price_usd |-> TyF64, to |-> TyString, type |-> TyString]

NftSweep ==
    [wallet |-> TyString, wallet_label |-> TyString, tx_hash |-> TyString,
     tx_type |-> TyString, chain |-> TyString, index |-> TyU32, timestamp |-> TyU64,
     block |-> TyU64, from |-> TyString, to |-> TyString, thumbnail |-> TyString,
     image |-> TyString, action |-> TyString, contract |-> TyString,
     marketplace |-> TyString, nft_address |-> TyString, nft_name |-> TyString,
     nft_symbol |-> TyString, nft_token_id |-> TyString, price |-> TyF64,
     price_usd |-> TyF64, profit |-> TyF64, currency_symbol |-> TyString,
     buyer |-> TyString, seller |-> TyString, token |-> TyString,
     first_interaction |-> TyBool, bid_accepted |-> TyBool]

Item_FlashloanBeforeReward ==
    <<"Swap", "Lp", "Transfer", "Lending", "NftMint", "NftTrade", "NftTransfer",
      "NftLending", "Bridge", "ContractInteraction", "Wrap", "SudoPool", "Flashloan",
      "Staking", "Perp", "Reward", "ContractCreation", "NftLiquidation", "Option",
      "NftSweep">>

\* enum Item, #[serde(untagged)]: the variants in declaration order.
Item ==
    <<"Swap", "Lp", "Transfer", "Lending", "NftMint", "NftTrade", "NftTransfer",
      "NftLending", "Bridge", "ContractInteraction", "Wrap", "SudoPool", "Reward",
      "Staking", "Perp", "Flashloan", "ContractCreation", "NftLiquidation", "Option",
      "NftSweep">>

Variants == {Item[i] : i \in 1..Len(Item)}

\* The struct a variant of Item wraps.
StructOf ==
    [v \in Variants |->
        CASE v = "Swap" -> Swap
          [] v = "Lp" -> Lp
          [] v = "Transfer" -> Transfer
          [] v = "Lending" -> Lending
          [] v = "NftMint" -> NftMint
          [] v = "NftTrade" -> NftTrade
          [] v = "NftTransfer" -> NftTransfer
          [] v = "NftLending" -> NftLending
          [] v = "Bridge" -> Bridge
          [] v = "ContractInteraction" -> ContractInteraction
          [] v = "Wrap" -> Wrap
          [] v = "SudoPool" -> SudoPool
          [] v = "Reward" -> Reward
          [] v = "Staking" -> Staking
          [] v = "Perp" -> Perp
          [] v = "Flashloan" -> Flashloan
          [] v = "ContractCreation" -> ContractCreation
          [] v = "NftLiquidation" -> NftLiquidation
          [] v = "Option" -> OptionType
          [] v = "NftSweep" -> NftSweep]

(***************************************************************************)
(* JSON values, by kind.  A JSON object is a function from its keys to the *)
(* kinds of their values.                                                  *)
(***************************************************************************)
KString == "string"
KBool == "bool"
KNull == "null"
KUint == "uint"          \* a non-negative integer that fits u32
KNegInt == "negint"      \* an integer below 0
KFloat == "float"        \* a number with a fractional part
KMarketCap == "marketcap" \* an object with token_address, market_cap, liquidity
KObject == "object"      \* an object without the fields of TokenMarketCap
Kinds == {KString, KBool, KNull, KUint, KNegInt, KFloat, KMarketCap, KObject}

Types == {TyString, TyU32, TyU64, TyF64, TyBool, TyOptU64, TyOptString, TyOptF64,
          TyOptTokenMarketCap}

IsOption(ty) == ty \in {TyOptU64, TyOptString, TyOptF64, TyOptTokenMarketCap}

\* A Deserialize that takes any number for u32 and u64, truncating or
\* wrapping it into the type.
AcceptedKinds_TruncatingUint ==
    [ty \in Types |->
        CASE ty = TyString -> {KString}
          [] ty = TyBool -> {KBool}
          [] ty = TyU32 -> {KUint, KNegInt, KFloat}
          [] ty = TyU64 -> {KUint, KNegInt, KFloat}
          [] ty = TyF64 -> {KUint, KNegInt, KFloat}
          [] ty = TyOptString -> {KNull, KString}
          [] ty = TyOptU64 -> {KNull, KUint, KNegInt, KFloat}
          [] ty = TyOptF64 -> {KNull, KUint, KNegInt, KFloat}
          [] ty = TyOptTokenMarketCap -> {KNull, KMarketCap}]

\* What serde's derived Deserialize accepts for a field of each type, the value
\* being buffered as serde's Content: a string for String, a bool for bool, a
\* non-negative integer for u32 and u64, any number for f64, the struct's
\* object for TokenMarketCap, and null or T's values for Option<T>.
AcceptedKinds ==
    [ty \in Types |->
        CASE ty = TyString -> {KString}
          [] ty = TyBool -> {KBool}
          [] ty = TyU32 -> {KUint}
          [] ty = TyU64 -> {KUint}
          [] ty = TyF64 -> {KUint, KNegInt, KFloat}
          [] ty = TyOptString -> {KNull, KString}
          [] ty = TyOptU64 -> {KNull, KUint}
          [] ty = TyOptF64 -> {KNull, KUint, KNegInt, KFloat}
          [] ty = TyOptTokenMarketCap -> {KNull, KMarketCap}]

Accepts(ty, k) == k \in AcceptedKinds[ty]

\* The fields of each variant's struct that are not an Option.
MandatoryFields ==
    [v \in Variants |-> {f \in DOMAIN StructOf[v] : ~IsOption(StructOf[v][f])}]

\* A derived Deserialize under #[serde(deny_unknown_fields)]: a key of e
\* that the struct does not declare is an error.
Binds_DenyUnknown(v, e) ==
    /\ MandatoryFields[v] \subseteq DOMAIN e
    /\ DOMAIN e \subseteq DOMAIN StructOf[v]
    /\ \A f \in DOMAIN e : Accepts(StructOf[v][f], e[f])

\* The derived Deserialize of variant v's struct succeeds on object e: every
\* field that is not an Option has its key in e, and every key of e that the
\* struct declares has a value of the field's type; keys of e the struct does
\* not declare are ignored.
Binds(v, e) ==
    /\ MandatoryFields[v] \subseteq DOMAIN e
    /\ \A f \in DOMAIN StructOf[v] \cap DOMAIN e : Accepts(StructOf[v][f], e[f])

NoMatch == "NoMatch"

\* The untagged deserializer from the i-th variant of `order` on: each variant
\* is tried in turn until one deserializes; none left is the error "data did
\* not match any variant of untagged enum Item".  The variants tried are
\* recorded in `seen`.
RECURSIVE TryFrom(_, _, _, _)
TryFrom(order, i, e, seen) ==
    IF i > Len(order) THEN [tried |-> seen, match |-> NoMatch]
    ELSE IF Binds(order[i], e)
         THEN [tried |-> Append(seen, order[i]), match |-> order[i]]
         ELSE TryFrom(order, i + 1, e, Append(seen, order[i]))

\* Item::deserialize
Item_deserialize(e) == TryFrom(Item, 1, e, <<>>)

(***************************************************************************)
(* Elements of data.items: the documented shape of a variant, changed in   *)
(* at most MaxEdits places.                                                *)
(***************************************************************************)
\* The kind of value the documentation of a field of type ty describes.
DocKind(ty) ==
    CASE ty \in {TyString, TyOptString} -> KString
      [] ty = TyBool -> KBool
      [] ty \in {TyU32, TyU64, TyOptU64} -> KUint
      [] ty \in {TyF64, TyOptF64} -> KFloat
      [] ty = TyOptTokenMarketCap -> KMarketCap

\* An element carrying every field of the variant, optional ones included.
FullShape(v) == [f \in DOMAIN StructOf[v] |-> DocKind(StructOf[v][f])]
\* An element carrying exactly the mandatory fields of the variant.
MandatoryShape(v) == [f \in MandatoryFields[v] |-> DocKind(StructOf[v][f])]

AllFields == UNION {DOMAIN StructOf[v] : v \in Variants}
\* The documented kind of each field (a field name has one kind in every
\* struct that declares it).
FieldDocKind ==
    [f \in AllFields |->
        LET v == CHOOSE w \in Variants : f \in DOMAIN StructOf[w]
        IN DocKind(StructOf[v][f])]


\* The kinds of value sent in place of a value of the documented kind: null
\* and a value of a type the field does not take, and for a number also the
\* other kinds of number.
OtherKinds ==
    [k \in {KString, KBool, KUint, KFloat, KMarketCap} |->
        CASE k = KString -> {KNull, KUint}
          [] k = KBool -> {KNull, KString}
          [] k = KUint -> {KNull, KString, KNegInt, KFloat}
          [] k = KFloat -> {KNull, KString, KUint, KNegInt}
          [] k = KMarketCap -> {KNull, KString, KObject}]

(***************************************************************************)
(* Item values and their encoding.  A value of a variant gives each field  *)
(* of the variant's struct a Rust value, written here by kind.             *)
(***************************************************************************)
\* At most this many f64 fields of an Item value are NaN or infinite.
MaxNonFinite == 1

VString == "String"
VBool == "bool"
VUint == "unsigned"
VFinite == "finite f64"
VNonFinite == "NaN or infinite f64"
VNone == "None"
VSomeString == "Some(String)"
VSomeUint == "Some(unsigned)"
VSomeFinite == "Some(finite f64)"
VSomeNonFinite == "Some(NaN or infinite f64)"
VSomeMarketCap == "Some(TokenMarketCap)"

NoValue == [variant |-> None, fields |-> <<>>]

OptionalFields(v) == DOMAIN StructOf[v] \ MandatoryFields[v]
FloatFields(v) == {f \in DOMAIN StructOf[v] : StructOf[v][f] \in {TyF64, TyOptF64}}

\* The subsets of S with at most k elements.
RECURSIVE SmallSubsets(_, _)
SmallSubsets(S, k) ==
    IF k = 0 THEN {{}}
    ELSE LET P == SmallSubsets(S, k - 1)
         IN P \cup {p \cup {x} : p \in P, x \in S}

\* The value of a field of type ty: Some or None for an Option, a finite
\* number or not for an f64.
FieldValue(ty, isSome, finite) ==
    CASE ty = TyString -> VString
      [] ty = TyBool -> VBool
      [] ty \in {TyU32, TyU64} -> VUint
      [] ty = TyF64 -> IF finite THEN VFinite ELSE VNonFinite
      [] ty = TyOptString -> IF isSome THEN VSomeString ELSE VNone
      [] ty = TyOptU64 -> IF isSome THEN VSomeUint ELSE VNone
      [] ty = TyOptF64 ->
            IF ~isSome THEN VNone
            ELSE IF finite THEN VSomeFinite ELSE VSomeNonFinite
      [] ty = TyOptTokenMarketCap -> IF isSome THEN VSomeMarketCap ELSE VNone

\* The value Item::v(x) whose Option fields are Some exactly for the fields
\* in `some` and whose f64 fields are not finite exactly for those in `nonfinite`.
ItemValue(v, some, nonfinite) ==
    [variant |-> v,
     fields |-> [f \in DOMAIN StructOf[v] |->
                    FieldValue(StructOf[v][f], f \in some, f \notin nonfinite)]]

\* The values of variant v in the model.
ItemValues(v) ==
    {ItemValue(v, some, nonfinite) :
        some \in SUBSET OptionalFields(v),
        nonfinite \in SmallSubsets(FloatFields(v), MaxNonFinite)}

\* serde_json's encoding of a field value: a string, a bool, an integer, a
\* number written with a fraction or an exponent for a finite f64, null for
\* an f64 that is NaN or infinite, null for None and the inner value's
\* encoding for Some.
to_json(x) ==
    CASE x \in {VString, VSomeString} -> KString
      [] x = VBool -> KBool
      [] x \in {VUint, VSomeUint} -> KUint
      [] x \in {VFinite, VSomeFinite} -> KFloat
      [] x \in {VNonFinite, VSomeNonFinite} -> KNull
      [] x = VSomeMarketCap -> KMarketCap
      [] x = VNone -> KNull

\* Item::serialize, #[serde(untagged)]: the object of the wrapped struct,
\* one key per field, with nothing that names the variant.
Item_serialize(x) == [f \in DOMAIN x.fields |-> to_json(x.fields[f])]

\* A derived Deserialize that gives an Option field whose key is absent or
\* null the default of the inner type instead of None.
from_json_DefaultForAbsent(ty, present, k) ==
    CASE ty \in {TyString, TyOptString} -> IF IsOption(ty) THEN VSomeString ELSE VString
      [] ty = TyBool -> VBool
      [] ty \in {TyU32, TyU64} -> VUint
      [] ty = TyOptU64 -> VSomeUint
      [] ty = TyF64 -> VFinite
      [] ty = TyOptF64 -> VSomeFinite
      [] ty = TyOptTokenMarketCap -> VSomeMarketCap

\* The value the derived Deserialize gives a field of type ty: None for an
\* Option whose key is absent or null, otherwise the value read.
from_json(ty, present, k) ==
    IF IsOption(ty)
    THEN IF ~present \/ k = KNull THEN VNone
         ELSE CASE ty = TyOptString -> VSomeString
                [] ty = TyOptU64 -> VSomeUint
                [] ty = TyOptF64 -> VSomeFinite
                [] ty = TyOptTokenMarketCap -> VSomeMarketCap
    ELSE CASE ty = TyString -> VString
           [] ty = TyBool -> VBool
           [] ty \in {TyU32, TyU64} -> VUint
           [] ty = TyF64 -> VFinite

\* The fields of the value Item::v(..) that decoding object e as variant v
\* yields.
DecodedFields(v, e) ==
    [f \in DOMAIN StructOf[v] |->
        from_json(StructOf[v][f], f \in DOMAIN e,
                  IF f \in DOMAIN e THEN e[f] ELSE KNull)]

(***************************************************************************)
(* src/models/mod.rs: the envelope Response<Item>.  A body is the object   *)
(* of the top-level keys other than data, the object data.paging and the   *)
(* array data.items.                                                       *)
(***************************************************************************)
\* data.items holds at most this many elements.
MaxItems == 3

\* struct Response<T>, the fields other than data.
Response == [status |-> TyString, message |-> TyOptString]
\* struct Paging
Paging ==
    [total_rows_in_page |-> TyU64, has_next_page |-> TyBool,
     next_object |-> TyOptString]

\* The derived Deserialize of a struct with the fields S succeeds on object e.
StructBinds(S, e) ==
    /\ {f \in DOMAIN S : ~IsOption(S[f])} \subseteq DOMAIN e
    /\ \A f \in DOMAIN S \cap DOMAIN e : Accepts(S[f], e[f])

\* Object e without key f.
Without(e, f) == [g \in DOMAIN e \ {f} |-> e[g]]

\* The top-level objects of the model: every field, no message, a null
\* message, and one without status.
ResponseShapes ==
    {[status |-> KString, message |-> KString],
     [status |-> KString],
     [status |-> KString, message |-> KNull],
     [message |-> KString]}
\* The paging objects of the model: every field, no next_object, a null
\* next_object, and one whose has_next_page is a string.
PagingShapes ==
    {[total_rows_in_page |-> KUint, has_next_page |-> KBool, next_object |-> KString],
     [total_rows_in_page |-> KUint, has_next_page |-> KBool],
     [total_rows_in_page |-> KUint, has_next_page |-> KBool, next_object |-> KNull],
     [total_rows_in_page |-> KUint, has_next_page |-> KString]}
\* The elements of data.items in the model: documented shapes of four
\* variants, a Swap element without wallet and a Lending element whose
\* timestamp is a string.
ElementShapes ==
    {FullShape("Swap"), MandatoryShape("Transfer"), FullShape("Flashloan"),
     FullShape("NftSweep"), Without(FullShape("Swap"), "wallet"),
     [FullShape("Lending") EXCEPT !["timestamp"] = KString]}

ItemLists == UNION {[1..n -> ElementShapes] : n \in 0..MaxItems}

Bodies_json ==
    [response : ResponseShapes, paging : PagingShapes, items : ItemLists]

NoBody == [response |-> <<>>, paging |-> <<>>, items |-> <<>>]
NotParsed == [tag |-> None, items |-> <<>>]

Vec_deserialize_SkipBad(list) ==
    LET RECURSIVE from(_, _)
        from(i, acc) ==
            IF i > Len(list) THEN [ok |-> TRUE, items |-> acc]
            ELSE LET m == Item_deserialize(list[i]).match
                 IN IF m = NoMatch
                    THEN from(i + 1, acc)
                    ELSE from(i + 1, Append(acc, m))
    IN from(1, <<>>)

Vec_deserialize_Reversed(list) ==
    LET RECURSIVE from(_, _)
        from(i, acc) ==
            IF i > Len(list) THEN [ok |-> TRUE, items |-> acc]
            ELSE LET m == Item_deserialize(list[i]).match
                 IN IF m = NoMatch
                    THEN [ok |-> FALSE, items |-> <<>>]
                    ELSE from(i + 1, <<m>> \o acc)
    IN from(1, <<>>)

\* Vec<Item>::deserialize: the elements are decoded in order and pushed to
\* the vector; the first element that fails ends the decoding with its error.
Vec_deserialize(list) ==
    LET RECURSIVE from(_, _)
        from(i, acc) ==
            IF i > Len(list) THEN [ok |-> TRUE, items |-> acc]
            ELSE LET m == Item_deserialize(list[i]).match
                 IN IF m = NoMatch
                    THEN [ok |-> FALSE, items |-> <<>>]
                    ELSE from(i + 1, Append(acc, m))
    IN from(1, <<>>)

\* `response.json::<models::Response<models::feed::Item>>().await?.data.items`
\* and `Ok(response_items)`: the items of a body that decodes, the decode
\* error otherwise.
json_data_items(b) ==
    IF StructBinds(Response, b.response) /\ StructBinds(Paging, b.paging)
       /\ Vec_deserialize(b.items).ok
    THEN [tag |-> ResOk, items |-> Vec_deserialize(b.items).items]
    ELSE [tag |-> ResReqwest, items |-> <<>>]

(***************************************************************************)
(* Specification Spec: a client is built by CieloApi::new and get_feed is  *)
(* called on it once.  request.send() runs the retry middleware, which     *)
(* runs one HTTP attempt after another.                                    *)
(***************************************************************************)
IdleDecoder ==
    /\ elem = <<>>
    /\ base = None
    /\ edits = 0
    /\ tried = <<>>
    /\ decoded = None

\* A client built with a key that is a header value and the default intervals.
IdleNew ==
    /\ api_key = <<65>>
    /\ arg_min_retry_interval = NoneArg
    /\ arg_max_retry_interval = NoneArg
    /\ constructed = new(api_key, NoneArg, NoneArg, arg_max_retries, TRUE)

IdleQuery ==
    /\ filters = Filters_default
    /\ query = <<>>

IdleItems ==
    /\ json_body = NoBody
    /\ parsed = NotParsed

IdleMore ==
    /\ jitter = <<>>
    /\ delays = <<>>
    /\ requests = <<>>
    /\ calls = <<>>

\* A call not started, on a policy that draws the factor 99 % every time.
IdleCalls ==
    /\ jitter = SteadyJitter
    /\ delays = <<>>
    /\ requests = <<>>
    /\ calls = <<>>

Init ==
    /\ arg_max_retries \in {NoneArg} \cup {Some(n) : n \in 0..MaxCfgRetries}
    /\ IdleNew
    /\ policy = constructed.policy
    /\ IdleQuery
    /\ IdleItems
    /\ value = NoValue
    /\ pc = "idle"
    /\ n_past_retries = 0
    /\ history = <<>>
    /\ retryable = None
    /\ sent = NoOutcome
    /\ body_read = None
    /\ json_parsed = FALSE
    /\ result = NoResult
    /\ IdleDecoder
    /\ IdleCalls

\* get_feed up to `request.send()`: the request is built from the filters and
\* handed to the middleware, which starts with n_past_retries = 0.
CallGetFeed ==
    /\ pc = "idle"
    /\ pc' = "send"
    /\ query' = build_query(filters)
    /\ n_past_retries' = 0
    /\ UNCHANGED <<arg_max_retries, policy, history, retryable, sent, body_read,
                   json_parsed, result>>
    /\ UNCHANGED <<decodeVars, newVars, itemsVars, value, filters>>
    /\ UNCHANGED moreVars

\* One turn of the middleware's loop: the attempt ends in outcome o, the
\* strategy classifies it, and a transient outcome is retried after a sleep
\* of the policy's backoff delay when the policy allows another retry;
\* otherwise o is what send() returns.  The model follows a call for at most
\* LastRetry + 1 attempts, which is every attempt the policy allows.
Attempt(o) ==
    /\ pc = "send"
    /\ Len(history) <= LastRetry
    /\ history' = Append(history, o)
    /\ retryable' = handle(o)
    /\ IF handle(o) = Transient /\ should_retry(policy, n_past_retries)
       THEN /\ pc' = "sleep"
            /\ sent' = sent
            /\ delays' = Append(delays, backoff_delay(policy, n_past_retries,
                                                      jitter[n_past_retries]))
       ELSE /\ pc' = "returned"
            /\ sent' = o
            /\ delays' = delays
    /\ UNCHANGED <<arg_max_retries, policy, n_past_retries, body_read, json_parsed,
                   result>>
    /\ requests' = Append(requests,
                          attempt_request([url |-> URL \o "feed", query |-> query,
                                           x_api_key |-> api_key], n_past_retries))
    /\ UNCHANGED <<decodeVars, newVars, itemsVars, value, filters, query>>
    /\ UNCHANGED <<jitter, calls>>

\* The sleep before a retry ends: the retry counter grows and the loop goes on.
BackoffElapsed ==
    /\ pc = "sleep"
    /\ n_past_retries' = n_past_retries + 1
    /\ pc' = "send"
    /\ UNCHANGED <<arg_max_retries, policy, history, retryable, sent, body_read,
                   json_parsed, result>>
    /\ UNCHANGED <<decodeVars, newVars, itemsVars, value, filters, query>>
    /\ UNCHANGED moreVars

\* get_feed after send(): the status check, the reading of the body and the
\* JSON decoding.  A middleware error returns before any body is read.
FinishGetFeed(readOk) ==
    /\ pc = "returned"
    /\ sent.ok \/ readOk
    /\ result' = get_feed_tail(sent, readOk)
    /\ json_parsed' = get_feed_tail(sent, readOk).parsed
    /\ body_read' = IF sent.ok THEN (IF readOk THEN "read" ELSE "failed") ELSE None
    /\ pc' = "done"
    /\ UNCHANGED <<arg_max_retries, policy, n_past_retries, history, retryable, sent>>
    /\ UNCHANGED <<decodeVars, newVars, itemsVars, value, filters, query>>
    /\ UNCHANGED moreVars

Next ==
    \/ CallGetFeed
    \/ \E o \in Outcomes : Attempt(o)
    \/ BackoffElapsed
    \/ \E readOk \in BOOLEAN : FinishGetFeed(readOk)

Spec == Init /\ [][Next]_vars

\* Spec with the scheduling the call relies on: an attempt in flight ends
\* (with a response, a transport failure or the client's 10 s timeout), a
\* backoff sleep ends, and the reading of a returned response ends.
SpecLive ==
    /\ Spec
    /\ WF_vars(\E o \in Outcomes : Attempt(o))
    /\ WF_vars(BackoffElapsed)
    /\ WF_vars(\E readOk \in BOOLEAN : FinishGetFeed(readOk))

(***************************************************************************)
(* Specification SpecDecode: one element of data.items is decoded as Item. *)
(* The element is the documented shape of a variant, with or without the   *)
(* optional fields, changed in at most MaxEdits places.                    *)
(***************************************************************************)
IdleCall ==
    /\ arg_max_retries = NoneArg
    /\ policy = CieloApi_new(NoneArg, NoneArg, NoneArg)
    /\ pc = "idle"
    /\ n_past_retries = 0
    /\ history = <<>>
    /\ retryable = None
    /\ sent = NoOutcome
    /\ body_read = None
    /\ json_parsed = FALSE
    /\ result = NoResult

InitDecode ==
    /\ base \in Variants
    /\ elem \in {FullShape(base), MandatoryShape(base)}
    /\ edits = 0
    /\ tried = <<>>
    /\ decoded = None
    /\ IdleCall
    /\ IdleNew
    /\ IdleQuery
    /\ IdleItems
    /\ value = NoValue
    /\ IdleMore

\* The server leaves out a field of the element.
RemoveField(f) ==
    /\ decoded = None
    /\ edits < MaxEdits
    /\ f \in DOMAIN elem
    /\ elem' = [g \in DOMAIN elem \ {f} |-> elem[g]]
    /\ edits' = edits + 1
    /\ UNCHANGED <<base, tried, decoded>>
    /\ UNCHANGED <<retryVars, newVars, queryVars, itemsVars, value>>
    /\ UNCHANGED moreVars

\* The server sends a value of another kind for a field of the element: one
\* of the kinds in OtherKinds for the kind the field is documented with.
RetypeField(f, k) ==
    /\ decoded = None
    /\ edits < MaxEdits
    /\ f \in DOMAIN elem
    /\ k \in OtherKinds[FieldDocKind[f]]
    /\ k # elem[f]
    /\ elem' = [elem EXCEPT ![f] = k]
    /\ edits' = edits + 1
    /\ UNCHANGED <<base, tried, decoded>>
    /\ UNCHANGED <<retryVars, newVars, queryVars, itemsVars, value>>
    /\ UNCHANGED moreVars

\* The server adds a field some variant declares, with a value of the kind
\* that variant documents.
AddField(f) ==
    /\ decoded = None
    /\ edits < MaxEdits
    /\ f \notin DOMAIN elem
    /\ elem' = [g \in DOMAIN elem \cup {f} |->
                  IF g = f THEN FieldDocKind[f] ELSE elem[g]]
    /\ edits' = edits + 1
    /\ UNCHANGED <<base, tried, decoded>>
    /\ UNCHANGED <<retryVars, newVars, queryVars, itemsVars, value>>
    /\ UNCHANGED moreVars

\* serde_json decodes the element as Item.
DecodeItem ==
    /\ decoded = None
    /\ tried' = Item_deserialize(elem).tried
    /\ decoded' = Item_deserialize(elem).match
    /\ UNCHANGED <<elem, base, edits>>
    /\ UNCHANGED <<retryVars, newVars, queryVars, itemsVars, value>>
    /\ UNCHANGED moreVars

\* The element can still be changed: it is not decoded yet and fewer than
\* MaxEdits changes were made.
CanEdit == decoded = None /\ edits < MaxEdits

NextDecode ==
    \/ CanEdit /\ \E f \in DOMAIN elem : RemoveField(f)
    \/ CanEdit /\ \E f \in DOMAIN elem, k \in Kinds : RetypeField(f, k)
    \/ CanEdit /\ \E f \in AllFields \ DOMAIN elem : AddField(f)
    \/ DecodeItem

SpecDecode == InitDecode /\ [][NextDecode]_vars

(***************************************************************************)
(* Specification SpecRoundTrip: an Item value is encoded as JSON and the   *)
(* result is decoded as Item.                                              *)
(***************************************************************************)
InitRoundTrip ==
    /\ base \in Variants
    /\ value \in ItemValues(base)
    /\ elem = <<>>
    /\ edits = 0
    /\ tried = <<>>
    /\ decoded = None
    /\ IdleCall
    /\ IdleNew
    /\ IdleQuery
    /\ IdleItems
    /\ IdleMore

\* serde_json::to_string(&item)
EncodeItem ==
    /\ value.variant # None
    /\ DOMAIN elem = {}
    /\ decoded = None
    /\ elem' = Item_serialize(value)
    /\ UNCHANGED <<base, edits, tried, decoded, value>>
    /\ UNCHANGED <<retryVars, newVars, queryVars, itemsVars>>
    /\ UNCHANGED moreVars

NextRoundTrip ==
    \/ EncodeItem
    \/ DOMAIN elem # {} /\ DecodeItem

SpecRoundTrip == InitRoundTrip /\ [][NextRoundTrip]_vars

(***************************************************************************)
(* Specification SpecItems: get_feed decodes the body of a 2xx response as *)
(* Response<Item> and returns data.items.  The request was built from the  *)
(* default filters or from those of the end-to-end scenario.               *)
(***************************************************************************)
InitItems ==
    /\ json_body \in Bodies_json
    /\ parsed = NotParsed
    /\ IdleCall
    /\ IdleNew
    /\ filters \in {Filters_default, Filters_scenario}
    /\ query = build_query(filters)
    /\ IdleDecoder
    /\ value = NoValue
    /\ IdleMore

\* get_feed, `response.json().await?.data.items` and `Ok(response_items)`.
ParseJson ==
    /\ parsed.tag = None
    /\ parsed' = json_data_items(json_body)
    /\ UNCHANGED <<json_body, value>>
    /\ UNCHANGED <<retryVars, decodeVars, newVars, queryVars>>
    /\ UNCHANGED moreVars

NextItems == ParseJson

SpecItems == InitItems /\ [][NextItems]_vars

(***************************************************************************)
(* Specification SpecQuery: get_feed is called with a Filters value on a   *)
(* client built with max_retries = Some(1).                                *)
(***************************************************************************)
InitQuery ==
    /\ arg_max_retries = Some(1)
    /\ IdleNew
    /\ policy = constructed.policy
    /\ pc = "idle"
    /\ n_past_retries = 0
    /\ history = <<>>
    /\ retryable = None
    /\ sent = NoOutcome
    /\ body_read = None
    /\ json_parsed = FALSE
    /\ result = NoResult
    /\ filters \in FilterValues
    /\ query = <<>>
    /\ IdleItems
    /\ IdleDecoder
    /\ value = NoValue
    /\ IdleCalls

SpecQuery == InitQuery /\ [][Next]_vars

(***************************************************************************)
(* Specification SpecNew: CieloApi::new is called with an API key and the  *)
(* three optional retry parameters.                                        *)
(***************************************************************************)
\* An API key has at most this many bytes.
MaxKeyLen == 2

Keys == UNION {[1..n -> KeyBytes] : n \in 0..MaxKeyLen}
\* The interval arguments of the model, in milliseconds.
MinIntervalArgs == {NoneArg, Some(100), Some(2000)}
MaxIntervalArgs == {NoneArg, Some(250), Some(4000)}
MaxRetriesArgs == {NoneArg} \cup {Some(n) : n \in 0..MaxCfgRetries}

InitNew ==
    /\ api_key \in Keys
    /\ arg_min_retry_interval \in MinIntervalArgs
    /\ arg_max_retry_interval \in MaxIntervalArgs
    /\ arg_max_retries \in MaxRetriesArgs
    /\ constructed = NotConstructed
    /\ policy = NoPolicy
    /\ pc = "idle"
    /\ n_past_retries = 0
    /\ history = <<>>
    /\ retryable = None
    /\ sent = NoOutcome
    /\ body_read = None
    /\ json_parsed = FALSE
    /\ result = NoResult
    /\ IdleQuery
    /\ IdleItems
    /\ IdleDecoder
    /\ value = NoValue
    /\ IdleMore

\* CieloApi::new runs; built tells whether reqwest could build the client.
\* No request is sent.
Construct(built) ==
    /\ constructed.status = None
    /\ constructed' = new(api_key, arg_min_retry_interval, arg_max_retry_interval,
                          arg_max_retries, built)
    /\ policy' = constructed'.policy
    /\ UNCHANGED <<api_key, arg_min_retry_interval, arg_max_retry_interval,
                   arg_max_retries>>
    /\ UNCHANGED <<pc, n_past_retries, history, retryable, sent, body_read,
                   json_parsed, result>>
    /\ UNCHANGED <<decodeVars, queryVars, itemsVars, value>>
    /\ UNCHANGED moreVars

NextNew == \E built \in BOOLEAN : Construct(built)

SpecNew == InitNew /\ [][NextNew]_vars


(***************************************************************************)
(* Properties of the retry policy and of get_feed, checked under Spec.     *)
(***************************************************************************)
\* The max_retries the caller configured: the argument of CieloApi::new, 3
\* when the argument is None.
ConfiguredMaxRetries == IF arg_max_retries.some THEN arg_max_retries.v ELSE 3

Attempts == Len(history)
LastOutcome == history[Len(history)]
SendReturned == pc \in {"returned", "done"}

Is200(o) == o.ok /\ o.status = 200
IsNon200(o) == o.ok /\ o.status # 200
IsTransientFailure(o) == ~o.ok /\ o.err \in {ErrConnect, ErrTimeout}
IsTerminalFailure(o) == ~o.ok /\ o.err \in {ErrBuilder, ErrMiddleware}

\* C1: one get_feed call makes at least one and at most max_retries + 1 HTTP
\* attempts, whatever the attempts end in; with max_retries = 0 it makes
\* exactly one.
C1_AttemptsBounded ==
    /\ Attempts <= ConfiguredMaxRetries + 1
    /\ SendReturned => Attempts >= 1
    /\ (SendReturned /\ ConfiguredMaxRetries = 0) => Attempts = 1

C1_Witness ==
    /\ pc = "done"
    /\ ConfiguredMaxRetries = 2
    /\ Attempts = 3
    /\ IsNon200(history[1])
    /\ IsTransientFailure(history[2])

\* C2: when the first k attempts return a non-200 status and attempt k+1
\* returns 200 (k <= max_retries), exactly k+1 attempts are made, no attempt
\* follows the 200, and send() hands back that 200 response.
C2_FirstSuccessEndsRetries ==
    \A i \in 1..Attempts :
        (/\ Is200(history[i])
         /\ i - 1 <= ConfiguredMaxRetries
         /\ \A j \in 1..(i - 1) : IsNon200(history[j]))
        => /\ Attempts = i
           /\ SendReturned
           /\ sent = history[i]

C2_Witness ==
    /\ pc = "done"
    /\ Attempts = 3
    /\ history[1].status = 500
    /\ history[2].status = 404
    /\ Is200(history[3])
    /\ sent = history[3]

\* C3: with max_retries = 3, when every attempt ends in a non-200 status (or in
\* a transient transport failure), exactly 4 attempts are made and send()
\* hands back the outcome of the 4th attempt itself.
C3_ExhaustionReturnsLastOutcome ==
    (/\ SendReturned
     /\ ConfiguredMaxRetries = 3
     /\ \A i \in 1..Attempts : IsNon200(history[i]) \/ IsTransientFailure(history[i]))
    => /\ Attempts = 4
       /\ sent = history[4]

C3_Witness ==
    /\ pc = "done"
    /\ ~arg_max_retries.some
    /\ Attempts = 4
    /\ \A i \in 1..4 : IsNon200(history[i])
    /\ history[3] # history[4]
    /\ sent = history[4]

\* C4: Retry::handle answers Transient for a response exactly when its status
\* is not 200 (201, 204 and 4xx included), and answers None for status 200.
C4_RetryableIffNot200 ==
    (Attempts >= 1 /\ LastOutcome.ok)
    => /\ (retryable = Transient) <=> (LastOutcome.status # 200)
       /\ (LastOutcome.status = 200) => (retryable = None)

C4_Witness ==
    /\ Attempts = 2
    /\ history[1].ok /\ history[1].status = 201
    /\ LastOutcome.ok /\ LastOutcome.status = 204
    /\ retryable = Transient

\* C5: for every final response whose status is not 200, other 2xx statuses
\* included, get_feed returns Error::StatusNot200 carrying the body text and
\* does not JSON-parse the body.
C5_Non200IsStatusNot200 ==
    (pc = "done" /\ IsNon200(sent) /\ body_read = "read")
    => /\ result.tag = ResStatusNot200
       /\ result.payload = sent.body
       /\ ~json_parsed

C7_FailureClassification ==
    /\ \A i \in 1..(Attempts - 1) : ~history[i].ok => IsTransientFailure(history[i])
    /\ (Attempts >= 1 /\ IsTerminalFailure(LastOutcome))
       => (SendReturned /\ sent = LastOutcome)
    /\ (Attempts >= 1 /\ IsTransientFailure(LastOutcome))
       => IF Attempts <= ConfiguredMaxRetries
          THEN pc \in {"sleep", "send"}
          ELSE SendReturned /\ sent = LastOutcome

C7_Witness ==
    /\ pc = "done"
    /\ ConfiguredMaxRetries = 3
    /\ Attempts = 2
    /\ history[1] = ErrFailure(ErrTimeout)
    /\ history[2] = ErrFailure(ErrBuilder)
    /\ result.tag = ResReqwestMiddleware


(***************************************************************************)
(* Properties of the decoding of an element as Item, checked under         *)
(* SpecDecode.                                                             *)
(***************************************************************************)
\* The declaration order of Item as the specification lists it.
ListedOrder ==
    <<"Swap", "Lp", "Transfer", "Lending", "NftMint", "NftTrade", "NftTransfer",
      "NftLending", "Bridge", "ContractInteraction", "Wrap", "SudoPool", "Reward",
      "Staking", "Perp", "Flashloan", "ContractCreation", "NftLiquidation", "Option",
      "NftSweep">>

\* Every mandatory field of variant v is present in e with a value of its type.
MandatoryFieldsBind(v, e) ==
    \A f \in MandatoryFields[v] : f \in DOMAIN e /\ Accepts(StructOf[v][f], e[f])

\* Every optional field of variant v is absent from e, null, or of its type.
OptionalFieldsBind(v, e) ==
    \A f \in DOMAIN StructOf[v] \ MandatoryFields[v] :
        f \notin DOMAIN e \/ Accepts(StructOf[v][f], e[f])

\* Variant v binds element e in the sense of the claim as stated.
BindsAsStated(v, e) == MandatoryFieldsBind(v, e)

\* Variant v binds element e in the sense of the claim as amended.
BindsAsAmended(v, e) == MandatoryFieldsBind(v, e) /\ OptionalFieldsBind(v, e)

\* C8 as stated: an element is decoded as the first variant, in declaration
\* order, whose mandatory fields are all present with the right type.
C8_FirstMandatoryMatch ==
    decoded # None =>
        IF decoded = NoMatch
        THEN \A i \in 1..Len(ListedOrder) : ~BindsAsStated(ListedOrder[i], elem)
        ELSE \E i \in 1..Len(ListedOrder) :
                /\ decoded = ListedOrder[i]
                /\ BindsAsStated(ListedOrder[i], elem)
                /\ \A j \in 1..(i - 1) : ~BindsAsStated(ListedOrder[j], elem)

\* C8 as amended: an element is decoded as the first variant, in declaration
\* order, whose mandatory fields are all present with the right type and whose
\* optional fields are each absent, null or of the right type; no later
\* variant is chosen when an earlier one binds, and the decoding fails when no
\* variant binds.
C8_FirstMatchWins ==
    decoded # None =>
        IF decoded = NoMatch
        THEN \A i \in 1..Len(ListedOrder) : ~BindsAsAmended(ListedOrder[i], elem)
        ELSE \E i \in 1..Len(ListedOrder) :
                /\ decoded = ListedOrder[i]
                /\ BindsAsAmended(ListedOrder[i], elem)
                /\ \A j \in 1..(i - 1) : ~BindsAsAmended(ListedOrder[j], elem)

C8_Witness ==
    /\ base = "Flashloan"
    /\ edits = 0
    /\ decoded = "Reward"
    /\ MandatoryFieldsBind("Flashloan", elem)
    /\ MandatoryFieldsBind("Reward", elem)

\* The mandatory fields of variant a are mandatory fields of variant b, with
\* the same types.
MandatorySubset(a, b) ==
    \A f \in MandatoryFields[a] :
        f \in MandatoryFields[b] /\ StructOf[a][f] = StructOf[b][f]

Position(seq, x) == CHOOSE i \in 1..Len(seq) : seq[i] = x
Occurs(seq, x) == \E i \in 1..Len(seq) : seq[i] = x

\* C9: for every pair of variants A and B such that the mandatory fields of A
\* are a subset of those of B, the decoder tries B before A: whenever it tries
\* A on an element, it has tried B on it before.
C9_SupersetTriedFirst ==
    \A a \in Variants, b \in Variants :
        (a # b /\ MandatorySubset(a, b) /\ Occurs(tried, a))
        => (Occurs(tried, b) /\ Position(tried, b) < Position(tried, a))

\* C10: an element built from the documented mandatory fields of a variant V
\* is decoded as V and as nothing else, for each of the 20 variants (no other
\* variant takes the element).
C10_DocumentedShapeDecodesAsItself ==
    (decoded # None /\ edits = 0 /\ elem = MandatoryShape(base)) => decoded = base

(***************************************************************************)
(* Properties of the encoding of Item, checked under SpecRoundTrip.        *)
(***************************************************************************)
\* Every number of the value is finite.
FiniteValue(x) ==
    \A f \in DOMAIN x.fields : x.fields[f] \notin {VNonFinite, VSomeNonFinite}

\* C11: round trip: encoding Item::V(x) to JSON and decoding the result as
\* Item yields Item::V(x) again, the same variant with the same field values
\* (stated for the values x whose numbers are all finite).
C11_RoundTrip ==
    (decoded # None /\ FiniteValue(value)) =>
        /\ decoded = value.variant
        /\ DecodedFields(decoded, elem) = value.fields

(***************************************************************************)
(* Properties of the decoding of a response body, checked under SpecItems. *)
(***************************************************************************)
MatchesNoVariant(e) == \A v \in Variants : ~Binds(v, e)
BodyItems == json_body.items
EnvelopeDecodes ==
    StructBinds(Response, json_body.response) /\ StructBinds(Paging, json_body.paging)

\* C12: if any single element of data.items matches no variant, get_feed
\* returns an error for the whole call and none of the items, those before
\* the bad element included; a call yields either the full decoded sequence
\* or exactly one error, never a partial list.
C12_AllOrNothing ==
    parsed.tag # None =>
        /\ (\E i \in 1..Len(BodyItems) : MatchesNoVariant(BodyItems[i]))
              => (parsed.tag = ResReqwest /\ parsed.items = <<>>)
        /\ \/ parsed.tag = ResOk /\ Len(parsed.items) = Len(BodyItems)
           \/ parsed.tag = ResReqwest /\ parsed.items = <<>>

C12_Witness ==
    /\ parsed.tag = ResReqwest
    /\ EnvelopeDecodes
    /\ Len(BodyItems) = 3
    /\ ~MatchesNoVariant(BodyItems[1])
    /\ ~MatchesNoVariant(BodyItems[2])
    /\ MatchesNoVariant(BodyItems[3])

\* C13: on a successful decode the returned sequence has the length of the
\* input data.items array and its i-th item is the decoding of the i-th
\* input element, for every i: order preserved, nothing dropped, duplicated
\* or reordered.
C13_OrderPreserved ==
    parsed.tag = ResOk =>
        /\ Len(parsed.items) = Len(BodyItems)
        /\ \A i \in 1..Len(BodyItems) :
              parsed.items[i] = Item_deserialize(BodyItems[i]).match

C13_Witness ==
    /\ parsed.tag = ResOk
    /\ Len(BodyItems) = 3
    /\ parsed.items[1] = "Swap"
    /\ parsed.items[2] = "Transfer"
    /\ parsed.items[3] = "Reward"

(***************************************************************************)
(* Further properties of the decoder, checked under SpecDecode.            *)
(***************************************************************************)
\* Object e lacks a mandatory field of variant v or gives a field of v a
\* value its type does not take.
ShapeBroken(v, e) ==
    \E f \in DOMAIN StructOf[v] :
        IF f \in DOMAIN e
        THEN ~Accepts(StructOf[v][f], e[f])
        ELSE f \in MandatoryFields[v]

\* C14: a partial or mismatched shape is rejected, not coerced: an element
\* that carries the field names of a variant V but has one of V's fields
\* missing or type-invalid makes the decode fail; it is not returned as an
\* item of some other variant.
C14_PartialShapeRejected ==
    (decoded # None /\ DOMAIN elem \subseteq DOMAIN StructOf[base]
        /\ ShapeBroken(base, elem))
    => decoded = NoMatch

(***************************************************************************)
(* Further properties of get_feed, checked under Spec.                     *)
(***************************************************************************)
\* The outcome is a 200 response whose body does not decode as the envelope
\* with its items.
Is200Undecodable(o) == Is200(o) /\ o.body = BodyOther

\* C15: a decode failure is never retried: when an attempt returns HTTP 200
\* and the body fails to decode, no further HTTP attempt is made for the
\* call, whatever number of retries remains, and the decode error is what
\* get_feed returns.
C15_DecodeFailureNotRetried ==
    /\ \A i \in 1..Len(history) :
          Is200Undecodable(history[i]) =>
              /\ i = Len(history)
              /\ SendReturned
              /\ sent = history[i]
    /\ (pc = "done" /\ Is200Undecodable(sent) /\ body_read = "read") =>
          /\ result.tag = ResReqwest
          /\ result.payload = "decode"
          /\ json_parsed

C15_Witness ==
    /\ pc = "done"
    /\ Is200Undecodable(sent)
    /\ body_read = "read"
    /\ result.tag = ResReqwest
    /\ Attempts = 2
    /\ n_past_retries = 1
    /\ ConfiguredMaxRetries = 3

(***************************************************************************)
(* Properties of the request get_feed builds, checked under SpecQuery.     *)
(***************************************************************************)
AllUnset(f) == \A n \in FilterFields : ~f[n].some

\* C16: for a Filters value with every field unset (Filters::default()) the
\* request built by get_feed has an empty query string, and against a server
\* that answers 200 with a well-formed envelope the call returns Ok.
C16_DefaultFiltersEmptyQuery ==
    AllUnset(filters) =>
        /\ query = <<>>
        /\ (pc = "done" /\ (\A i \in 1..Len(history) : Is200(history[i]))
               /\ sent.body = BodyEnvelope /\ body_read = "read")
           => result.tag = ResOk

C16_Witness ==
    /\ filters = Filters_default
    /\ pc = "done"
    /\ query = <<>>
    /\ Is200(sent)
    /\ result.tag = ResOk

\* The positions of the query pairs with key k.
PairsWithKey(k) == {i \in 1..Len(query) : query[i][1] = k}

\* The field is set and the query holds exactly one pair with the key, whose
\* value is val; or the field is unset and the key does not appear.
MappedAs(opt, key, val) ==
    IF opt.some
    THEN \E i \in 1..Len(query) : PairsWithKey(key) = {i} /\ query[i][2] = val
    ELSE PairsWithKey(key) = {}

\* The decimal text of the numbers of the model.
Decimal(n) ==
    CASE n = 0 -> "0"
      [] n = 7 -> "7"
      [] n = 10 -> "10"
      [] n = 100 -> "100"
      [] n = 1700000000 -> "1700000000"
      [] n = 1700003600 -> "1700003600"

\* The lists of the model joined with commas, in input order.
CommaJoined(list) ==
    CASE list = <<>> -> ""
      [] list = <<"solana">> -> "solana"
      [] list = <<"solana", "ethereum">> -> "solana,ethereum"
      [] list = <<"ethereum", "solana">> -> "ethereum,solana"
      [] list = <<"token_a", "token_b">> -> "token_a,token_b"

\* The tx_types lists of the model as snake_case names joined with commas.
SnakeCaseJoined(list) ==
    CASE list = <<>> -> ""
      [] list = <<"Swap">> -> "swap"
      [] list = <<"NftTrade", "ContractInteraction">> -> "nft_trade,contract_interaction"

\* C17: for every Filters value and each of the eleven fields of the mapping
\* table: if the field is set the query string holds exactly one pair with
\* its mapped key and the table's encoding (numbers in decimal, lists
\* comma-joined in input order, tx_types as snake_case names, booleans as
\* true/false); if the field is unset its key does not appear.
C17_QueryMapping ==
    pc # "idle" =>
        /\ MappedAs(filters.wallet, "wallet", filters.wallet.v)
        /\ MappedAs(filters.limit, "limit", Decimal(filters.limit.v))
        /\ MappedAs(filters.list_id, "list", Decimal(filters.list_id.v))
        /\ MappedAs(filters.chains, "chains", CommaJoined(filters.chains.v))
        /\ MappedAs(filters.tx_types, "txTypes", SnakeCaseJoined(filters.tx_types.v))
        /\ MappedAs(filters.tokens, "tokens", CommaJoined(filters.tokens.v))
        /\ MappedAs(filters.min_usd, "minUSD", Decimal(filters.min_usd.v))
        /\ MappedAs(filters.new_trades, "newTrades",
                    IF filters.new_trades.v THEN "true" ELSE "false")
        /\ MappedAs(filters.start_from, "startFrom", filters.start_from.v)
        /\ MappedAs(filters.from_timestamp, "fromTimestamp",
                    Decimal(filters.from_timestamp.v))
        /\ MappedAs(filters.to_timestamp, "toTimestamp",
                    Decimal(filters.to_timestamp.v))

C17_Witness ==
    /\ pc # "idle"
    /\ filters.chains = Some(<<"ethereum", "solana">>)
    /\ filters.tx_types = Some(<<"NftTrade", "ContractInteraction">>)
    /\ query = <<<<"chains", "ethereum,solana">>,
                 <<"txTypes", "nft_trade,contract_interaction">>>>

(***************************************************************************)
(* Properties of CieloApi::new, checked under SpecNew.                     *)
(***************************************************************************)
Returned == constructed.status # None

\* The key holds a control character that no header value may hold: a line
\* feed or DEL.
HasForbiddenByte(key) == \E i \in 1..Len(key) : key[i] \in {10, 127}

\* C18: when the API key cannot be encoded as an HTTP header value (for
\* example it contains a control character), CieloApi::new surfaces a
\* construction error to the caller as a typed Err result, without a panic
\* and without any network activity.
C18_UnencodableKeyIsErr ==
    (Returned /\ HasForbiddenByte(api_key)) =>
        /\ constructed.status = NewErr
        /\ history = <<>>

\* The parameter the policy uses for an argument: v for Some(v), the
\* default for None.
Effective(arg, default) == IF arg.some THEN arg.v ELSE default

\* C19: CieloApi::new with a header-encodable API key returns Ok (the HTTP
\* client being buildable); each retry parameter passed as None takes its
\* default (min_retry_interval 500 ms, max_retry_interval 1000 ms,
\* max_retries 3) and each parameter passed as Some(v) uses v,
\* independently of the other two.
C19_DefaultsAndOverrides ==
    (Returned /\ ~HasForbiddenByte(api_key) /\ constructed.cause # "Reqwest") =>
        /\ constructed.status = NewOk
        /\ policy.min_retry_interval = Effective(arg_min_retry_interval, 500)
        /\ policy.max_retry_interval = Effective(arg_max_retry_interval, 1000)
        /\ policy.max_n_retries = Effective(arg_max_retries, 3)

\* C20: constructing the client requires a non-empty API key: CieloApi::new
\* called with the empty string does not yield a usable client.
C20_EmptyKeyRejected ==
    (Returned /\ api_key = <<>>) => constructed.status # NewOk

(***************************************************************************)
(* Specification SpecCalls: NumCalls get_feed calls run on one client,     *)
(* built with max_retries = Some(1), their steps interleaved in any order. *)
(* Each call is the record of its own position, retry counter, attempts    *)
(* and result; the client's policy is what the calls share.                *)
(***************************************************************************)
\* The number of get_feed calls made on the client.
NumCalls == 2

CallIds == 1..NumCalls

\* What an attempt of one of the calls ends in: a 200 response with the
\* envelope, a 500 response, a connect failure or a builder failure.
CallOutcomes ==
    {OkResponse(200, BodyEnvelope), OkResponse(500, BodyOther),
     ErrFailure(ErrConnect), ErrFailure(ErrBuilder)}

NewCall ==
    [pc |-> "idle", n_past_retries |-> 0, history |-> <<>>, sent |-> NoOutcome,
     result |-> NoResult]

initial_n_past_retries_Shared(running) ==
    LET counts == {running[c].n_past_retries : c \in DOMAIN running}
    IN CHOOSE m \in counts : \A k \in counts : k <= m

\* The middleware runs every request with a retry counter of its own, which
\* starts at 0 whatever the other calls on the client are doing.
initial_n_past_retries(running) == 0

InitCalls ==
    /\ arg_max_retries = Some(1)
    /\ IdleNew
    /\ policy = constructed.policy
    /\ calls = [c \in CallIds |-> NewCall]
    /\ pc = "idle"
    /\ n_past_retries = 0
    /\ history = <<>>
    /\ retryable = None
    /\ sent = NoOutcome
    /\ body_read = None
    /\ json_parsed = FALSE
    /\ result = NoResult
    /\ IdleQuery
    /\ IdleItems
    /\ IdleDecoder
    /\ value = NoValue
    /\ jitter = <<>>
    /\ delays = <<>>
    /\ requests = <<>>

\* What no step of a call changes: the client with its policy, and the
\* variables of the other specifications.
CallFrame ==
    /\ UNCHANGED <<retryVars, decodeVars, newVars, queryVars, itemsVars, value>>
    /\ UNCHANGED <<jitter, delays, requests>>

\* Call c: get_feed up to `request.send()`.
StartCall(c) ==
    /\ calls[c].pc = "idle"
    /\ calls' = [calls EXCEPT ![c].pc = "send",
                              ![c].n_past_retries = initial_n_past_retries(calls)]
    /\ CallFrame

\* Call c: one turn of the middleware's loop, the attempt ending in o.
CallAttempt(c, o) ==
    /\ calls[c].pc = "send"
    /\ calls' =
         [calls EXCEPT
            ![c] = IF handle(o) = Transient
                      /\ should_retry(policy, calls[c].n_past_retries)
                   THEN [@ EXCEPT !.history = Append(@, o), !.pc = "sleep"]
                   ELSE [@ EXCEPT !.history = Append(@, o), !.pc = "returned",
                                  !.sent = o]]
    /\ CallFrame

\* Call c: the sleep before a retry ends.
CallBackoffElapsed(c) ==
    /\ calls[c].pc = "sleep"
    /\ calls' = [calls EXCEPT ![c].n_past_retries = @ + 1, ![c].pc = "send"]
    /\ CallFrame

\* Call c: get_feed after send().
FinishCall(c, readOk) ==
    /\ calls[c].pc = "returned"
    /\ calls[c].sent.ok \/ readOk
    /\ calls' = [calls EXCEPT ![c].result = get_feed_tail(calls[c].sent, readOk),
                              ![c].pc = "done"]
    /\ CallFrame

NextCalls ==
    \/ \E c \in CallIds : StartCall(c)
    \/ \E c \in CallIds, o \in CallOutcomes : CallAttempt(c, o)
    \/ \E c \in CallIds : CallBackoffElapsed(c)
    \/ \E c \in CallIds, readOk \in BOOLEAN : FinishCall(c, readOk)

SpecCalls == InitCalls /\ [][NextCalls]_vars

(***************************************************************************)
(* Properties of concurrent calls, checked under SpecCalls.                *)
(***************************************************************************)
\* The middleware retries outcome o: a response with a status other than
\* 200, or a connect or timeout failure.
IsRetried(o) == IsNon200(o) \/ IsTransientFailure(o)

\* The state of call k follows from the outcomes of its own attempts h: the
\* counter is the number of retries made, every attempt but the last was
\* retried, a retried kind of outcome ends the call only when the retries
\* are used up, and the result is the one get_feed gives the last outcome.
OwnAttemptsOnly(k) ==
    LET h == k.history
        n == Len(k.history)
    IN /\ k.pc = "idle" => (n = 0 /\ k.n_past_retries = 0)
       /\ k.pc = "send" => k.n_past_retries = n
       /\ k.pc \in {"sleep", "returned", "done"} => (n >= 1 /\ k.n_past_retries = n - 1)
       /\ n <= ConfiguredMaxRetries + 1
       /\ \A i \in 1..(n - 1) : IsRetried(h[i])
       /\ k.pc = "sleep" => IsRetried(h[n])
       /\ k.pc \in {"returned", "done"} =>
             /\ k.sent = h[n]
             /\ IsRetried(h[n]) => n = ConfiguredMaxRetries + 1
       /\ k.pc = "done" =>
             k.result \in {get_feed_tail(h[n], TRUE), get_feed_tail(h[n], FALSE)}

\* C21: get_feed calls running concurrently or one after another on the
\* same CieloApi have independent retry state: the attempt count and the
\* outcome of a call follow from its own attempts alone, every call starts
\* at attempt count zero, and no call changes the shared client after its
\* construction.
C21_IndependentRetryState ==
    /\ \A c \in CallIds : OwnAttemptsOnly(calls[c])
    /\ constructed.status = NewOk
    /\ policy = constructed.policy
    /\ policy = CieloApi_new(NoneArg, NoneArg, arg_max_retries)

C21_Witness ==
    /\ calls[1].pc = "send"
    /\ calls[1].n_past_retries = 1
    /\ calls[2].pc = "send"
    /\ calls[2].n_past_retries = 0
    /\ calls[2].history = <<>>

(***************************************************************************)
(* The end-to-end scenario, checked under SpecItems.                       *)
(***************************************************************************)
\* The response of the scenario: a body that decodes, with one Swap item
\* and a paging block without a next cursor.
OneSwapNoNextPage ==
    /\ EnvelopeDecodes
    /\ BodyItems = <<FullShape("Swap")>>
    /\ "next_object" \in DOMAIN json_body.paging => json_body.paging.next_object = KNull

\* C22: a request with limit=10, chains=[solana], tx_types=[Swap],
\* min_usd=100 against a server that returns one Swap item and
\* has_next_page=false yields to the caller a one-element sequence and an
\* empty next cursor: the result of get_feed carries the next-page cursor
\* of the response's paging block as well as the items.
C22_ItemsAndNextCursor ==
    (parsed.tag # None /\ filters = Filters_scenario /\ OneSwapNoNextPage) =>
        /\ parsed.tag = ResOk
        /\ parsed.items = <<"Swap">>
        /\ "next_object" \in DOMAIN parsed
        /\ parsed.next_object = VNone

(***************************************************************************)
(* Specification SpecBackoff: one get_feed call on a client built with the *)
(* default max_retries and with the default or the overridden retry        *)
(* intervals, the policy drawing any jitter factors.                       *)
(***************************************************************************)
\* The interval arguments of CieloApi::new: the defaults, and 100 and 4000 ms.
IntervalArgs == {<<NoneArg, NoneArg>>, <<Some(100), Some(4000)>>}

InitBackoff ==
    /\ arg_max_retries = NoneArg
    /\ api_key = <<65>>
    /\ \E a \in IntervalArgs : /\ arg_min_retry_interval = a[1]
                                /\ arg_max_retry_interval = a[2]
    /\ constructed = new(api_key, arg_min_retry_interval, arg_max_retry_interval,
                         arg_max_retries, TRUE)
    /\ policy = constructed.policy
    /\ jitter \in [0..(MAX_RETRIES - 1) -> JitterFactors]
    /\ delays = <<>>
    /\ requests = <<>>
    /\ calls = <<>>
    /\ pc = "idle"
    /\ n_past_retries = 0
    /\ history = <<>>
    /\ retryable = None
    /\ sent = NoOutcome
    /\ body_read = None
    /\ json_parsed = FALSE
    /\ result = NoResult
    /\ IdleQuery
    /\ IdleItems
    /\ IdleDecoder
    /\ value = NoValue

SpecBackoff == InitBackoff /\ [][Next]_vars

(***************************************************************************)
(* Properties of the backoff, checked under SpecBackoff.                   *)
(***************************************************************************)
\* C23: for a configuration with min_retry_interval <= max_retry_interval,
\* the delay before each retry lies in [min_retry_interval,
\* max_retry_interval], and the delays of successive retries of one call
\* are non-decreasing until they reach max_retry_interval.
C23_DelaysBoundedAndMonotone ==
    policy.min_retry_interval <= policy.max_retry_interval =>
        /\ \A i \in 1..Len(delays) :
              /\ policy.min_retry_interval <= delays[i]
              /\ delays[i] <= policy.max_retry_interval
        /\ \A i \in 1..(Len(delays) - 1) :
              delays[i] < policy.max_retry_interval => delays[i] <= delays[i + 1]

(***************************************************************************)
(* Properties of the decoded value, checked under SpecDecode.              *)
(***************************************************************************)
\* The variants whose optional fields the property names, with those fields.
NamedOptionalFields ==
    [v \in {"Swap", "SudoPool", "Perp"} |->
        CASE v = "Swap" -> {"token_market_cap"}
          [] v = "SudoPool" -> {"block", "dex"}
          [] v = "Perp" -> {"position_size", "position_size_usd", "leverage",
                            "unrealized_pnl"}]

\* A field value that is bound to a value read from the element.
IsBound(x) == x \in {VString, VBool, VUint, VFinite}
IsSome(x) == x \in {VSomeString, VSomeUint, VSomeFinite, VSomeMarketCap}

\* The fields of the Item value the decoder returned for the element.
DecodedValue == DecodedFields(decoded, elem)

\* C24: a well-formed Swap-shaped element decodes to Item::Swap with every
\* mandatory field bound; the optional token_market_cap is Some exactly when
\* the element provides it, and an optional field that is absent or null is
\* None, never a default value.  The same holds for the block and dex of
\* SudoPool and the four optional fields of Perp.
C24_OptionalAbsentIsNone ==
    /\ \A v \in DOMAIN NamedOptionalFields : NamedOptionalFields[v] = OptionalFields(v)
    /\ (decoded # None /\ BindsAsAmended("Swap", elem)) => decoded = "Swap"
    /\ decoded \in DOMAIN NamedOptionalFields =>
          /\ \A f \in MandatoryFields[decoded] :
                f \in DOMAIN elem /\ IsBound(DecodedValue[f])
          /\ \A f \in NamedOptionalFields[decoded] :
                IF f \notin DOMAIN elem \/ elem[f] = KNull
                THEN DecodedValue[f] = VNone
                ELSE IsSome(DecodedValue[f])

C24_Witness ==
    /\ base = "Swap"
    /\ decoded = "Swap"
    /\ edits = 1
    /\ "token_market_cap" \in DOMAIN elem
    /\ elem["token_market_cap"] = KNull
    /\ DecodedValue["token_market_cap"] = VNone
    /\ \A f \in MandatoryFields["Swap"] : IsBound(DecodedValue[f])

\* The unsigned integer fields every element carries.
UnsignedFields == {"timestamp", "block", "index"}

\* Element e has a negative or a fractional number in one of the unsigned
\* integer fields.
HasBadUnsigned(e) ==
    \E f \in UnsignedFields \cap DOMAIN e : e[f] \in {KNegInt, KFloat}

\* C25: an element whose timestamp, block or index is a negative or a
\* fractional JSON number binds to no variant, so its decoding fails; the
\* number is never truncated, rounded or wrapped into the unsigned type.
C25_BadUnsignedRejected ==
    /\ \A v \in Variants : \A f \in UnsignedFields :
          f \in DOMAIN StructOf[v] /\ StructOf[v][f] \in {TyU32, TyU64, TyOptU64}
    /\ (decoded # None /\ HasBadUnsigned(elem)) =>
          /\ decoded = NoMatch
          /\ \A v \in Variants : ~Binds(v, elem)

C25_Witness ==
    /\ edits = 1
    /\ "block" \in DOMAIN elem
    /\ elem["block"] = KFloat
    /\ decoded = NoMatch
    /\ Len(tried) = Len(Item)

(***************************************************************************)
(* Properties of the requests one get_feed call sends, checked under       *)
(* SpecQuery.                                                              *)
(***************************************************************************)
\* The request get_feed builds from the filters on a client with the key.
BuiltRequest ==
    [url |-> "https://feed-api.cielo.finance/api/v1/feed",
     query |-> build_query(filters),
     x_api_key |-> api_key]

\* C26: every attempt of one get_feed call sends the same request: the URL,
\* the query parameters and the X-API-KEY header of the first attempt are
\* those of every retry.
C26_SameRequestEveryAttempt ==
    /\ Len(requests) = Len(history)
    /\ \A i \in 1..Len(requests) : requests[i] = BuiltRequest

C26_Witness ==
    /\ Len(requests) = 2
    /\ n_past_retries = 1
    /\ requests[1].query # <<>>
    /\ requests[2] = requests[1]

(***************************************************************************)
(* Termination of get_feed, checked under SpecLive.                        *)
(***************************************************************************)
\* C27: every get_feed call eventually returns a result, provided each
\* attempt completes and each backoff wait ends; the retry loop does not run
\* forever, even when the server answers every attempt with a non-200 status.
C27_GetFeedReturns == (pc = "send") ~> (pc = "done" /\ result # NoResult)

C27_Witness ==
    /\ pc = "done"
    /\ result # NoResult
    /\ arg_max_retries = NoneArg
    /\ Len(history) = MAX_RETRIES + 1
    /\ \A i \in 1..Len(history) : IsNon200(history[i])

\* The values of Filters.include_market_cap.
MarketCapChoices == {NoneBool, Some(TRUE), Some(FALSE)}

\* The filters with include_market_cap replaced by x.
WithMarketCap(f, x) == [f EXCEPT !.include_market_cap = x]

BodyUnusable == body_read = "failed" \/ sent.body # BodyEnvelope

\* C29: the result of get_feed is determined by the kind of the final
\* outcome: a final transport or middleware failure gives
\* Error::ReqwestMiddleware, a final response with a non-2xx status gives
\* Error::StatusNot200, a final 2xx response whose body cannot be read or
\* decoded gives Error::Reqwest, and Ok is returned only when the final
\* response has a 2xx status and its whole body decodes.
C29_ErrorByFinalOutcome ==
    pc = "done" =>
        /\ ~sent.ok => result.tag = ResReqwestMiddleware
        /\ (sent.ok /\ ~is_success(sent.status)) => result.tag = ResStatusNot200
        /\ (sent.ok /\ is_success(sent.status) /\ BodyUnusable)
              => result.tag = ResReqwest
        /\ result.tag = ResOk =>
              /\ sent.ok
              /\ is_success(sent.status)
              /\ ~BodyUnusable

(***************************************************************************)
(* Undeclared fields, checked under SpecDecode.                            *)
(***************************************************************************)
\* Element e without the keys variant v's struct does not declare.
Declared(v, e) == [f \in DOMAIN e \cap DOMAIN StructOf[v] |-> e[f]]

\* Element e has a key variant v's struct does not declare.
HasExtra(v, e) == DOMAIN e \ DOMAIN StructOf[v] # {}

\* The first variant in declaration order that binds the declared part of e.
RECURSIVE EarliestBinding(_, _)
EarliestBinding(i, e) ==
    IF i > Len(ListedOrder) THEN NoMatch
    ELSE IF BindsAsAmended(ListedOrder[i], Declared(ListedOrder[i], e))
         THEN ListedOrder[i]
         ELSE EarliestBinding(i + 1, e)

\* C30: fields an element carries beyond those a variant declares are
\* ignored: an element with the fields of variant V and extra fields still
\* binds V, so an element that has the fields of several variants decodes as
\* the earliest of them in declaration order (a Flashloan-shaped element as
\* Reward, an NftSweep-shaped element as NftTrade).
C30_ExtraFieldsIgnored ==
    decoded # None =>
        /\ decoded = EarliestBinding(1, elem)
        /\ \A v \in Variants :
              BindsAsAmended(v, Declared(v, elem)) <=> Binds(v, elem)
        /\ (edits = 0 /\ base = "Flashloan") => decoded = "Reward"
        /\ (edits = 0 /\ base = "NftSweep") => decoded = "NftTrade"

C30_Witness ==
    /\ base = "NftSweep"
    /\ edits = 1
    /\ HasExtra("NftSweep", elem)
    /\ HasExtra("NftTrade", elem)
    /\ Binds("NftSweep", elem)
    /\ decoded = "NftTrade"

====
